---------------------------- MODULE Spec2Model ----------------------------
(***************************************************************************)
(* LittleAngelBot: the durable conversation store (context.py), the       *)
(* ReAct loop (ReAct.py), the ReCAP planner (ReCAP.py), the human-input   *)
(* manager (tools/ask_human_tool.py) and the per-user task coordinator    *)
(* (entry_qq.py, entry_cli.py, little_angel_bot.py).                      *)
(*                                                                         *)
(* The module holds one specification per component.  Every               *)
(* specification owns a group of variables and leaves the other groups at *)
(* their initial values:                                                   *)
(*   SpecHist   run_task against HistoryManager / ConversationContext      *)
(*   SpecReact  ReActAgent.run with ContextWindowManager.compress_messages *)
(*   SpecRecap  ReCAPAgent.run / _solve                                    *)
(*   SpecRecapLive  SpecRecap with every step of the run weakly fair       *)
(*   SpecAsk    AskHumanManager.ask / provide / cancel                     *)
(*   SpecCoord  MyClient (QQ entry), main_async (CLI entry), alarms        *)
(*   SpecCoordLive  SpecCoord with the loop and the worker threads fair    *)
(*   SpecBind   the shared AlarmTool / AskHumanTool under several tasks    *)
(*   SpecTools  one step of the ReAct loop with its batch of tool calls    *)
(*   SpecPlan   ReCAPAgent._parse_plan under _plan and _refine             *)
(*   SpecWindow compress_messages, window_messages, maybe_compress on lists *)
(*   SpecNormalize  normalize_tool_output applied repeatedly               *)
(*   SpecStore  append_message / append_messages / finalize on a session   *)
(***************************************************************************)
EXTENDS Naturals, Integers, Sequences, FiniteSets, TLC

VARIABLES
    \* ---- history store (SpecHist) ----
    hist,       \* the durable record <name>.json: messages, rounds, renamed, name, compressed
    full,       \* the unabridged mirror <name>_full.json: messages, rounds, renamed, name
    hcurrent,   \* state.json: the name of the user's current history file
    hctx,       \* the ConversationContext of the run: history_path, _baseline_count, _messages
    hpc,        \* position of the run inside LittleAngelBot.run_task
    hcancel,    \* _TaskState.cancel_requested, read through cancel_checker
    hdelta,     \* new_messages returned by the agent
    hreply,     \* reply_text returned by the agent: "none", "empty" or "text"
    hret,       \* what run_task returned: "pending", "None", "empty" or "text"
    hsnap,      \* the record and the mirror as they were when the context was opened
    hlast,      \* the last HistoryManager operation and whether it compressed
    hruns,      \* number of run_task invocations started
    nextId,     \* next fresh message identity
    \* ---- calls of the ContextWindowManager policies (SpecWindow) ----
    wself,      \* the manager: [max_tokens, min_keep]
    win,        \* the message list the caller holds
    wpreserve,  \* preserve_system
    wtrig,      \* triggered_by_non_assistant
    wcaller,    \* "direct": any flag; "agent": the flag as ReActAgent.run and ReCAPAgent._plan compute it
    wop,        \* the policy called last: "none", "compress", "window" or "durable"
    warg,       \* the list passed to the last call
    wout,       \* the list the last call returned (the stored messages for "durable")
    wlog,       \* the compression log of the durable record after maybe_compress
    wcalls,     \* number of calls made
    \* ---- calls of normalize_tool_output (SpecNormalize) ----
    nself,      \* the manager: tool_output_dir set or not, _tool_output_index, the files written
    ncontent,   \* the content the first call is given
    nouts,      \* what the successive calls returned
    nspills,    \* the number of files in the side-store after each call
    \* ---- one session under append_message / append_messages / finalize (SpecStore) ----
    sstore,     \* the two files of the session: hist (the record) and full (the mirror)
    scurrent,   \* state.json: the name of the user's current history file
    spath,      \* ConversationContext.history_path
    sall,       \* every message appended to the session so far, in order
    slast,      \* the last operation: its name, what it appended, the state before it, whether it compressed
    srenames,   \* number of finalize calls that renamed the files
    sops,       \* number of operations made
    snext,      \* next fresh message identity
    \* ---- ReAct loop (SpecReact) ----
    rmsgs,      \* ReActAgent.run: the local `messages`
    rnew,       \* new_messages
    rpc,        \* position inside run: "loop", "model", "tools", "append", "done"
    rstep,      \* iterations of the for loop entered (step_count)
    rcancel,    \* what cancel_checker() returns
    rpending,   \* tool calls of the current assistant turn not yet appended: call ids, in call order
    rtoolchars, \* content length of the tool results of the current batch
    rtoolcount, \* tool_call_count
    rlimit,     \* the numbers named by the step-limit reply, NoLimit if none was built
    rret,       \* how run ended: [text, delta], text "pending", "empty", "text", "limit" or "raised"
    rcalls,     \* number of get_response calls issued
    rfired,     \* number of times compress_messages replaced a prefix by a summary
    rnext,      \* next fresh message identity
    \* ---- one step of the ReAct loop with its tool batch (SpecTools) ----
    tcalls,     \* tool_calls of the step: [id, kind], in issue order
    tfutures,   \* the futures of the batch: the result of each call, NoResult while it runs
    torder,     \* the positions of the batch in the order their calls completed
    tresults,   \* tool_results: what _run_tool_calls_parallel returned
    tlog,       \* the tool messages appended so far, each with the result it was built from
    tpc,        \* position inside the step: "model", "tools", "append", "done"
    tcancel,    \* what cancel_checker() returns
    tend,       \* how the step ended: "running", "continue", "cancelled", "raised_by_model", "raised_by_tool"
    \* ---- one planning or refinement response and its parsing (SpecPlan) ----
    pmode,      \* "plan" (_plan, no fallback_remaining) or "refine" (_refine)
    ptask,      \* the task text of the _solve invocation: whether it holds a request-for-input keyword
    pfallback,  \* `remaining` when the request was issued: [given, list]
    presp,      \* the model's response: [content, subtasks, items]
    pplan,      \* what _parse_plan returned: [raised, subtasks]
    premaining, \* `remaining` after _solve has taken the parsed plan in
    pstage,     \* "call", "parse", "parsed", "done" or "raised"
    \* ---- ReCAP planner (SpecRecap) ----
    kstack,     \* the active _solve invocations, outermost first
    kmsgs,      \* the `messages` list all invocations share (message kinds)
    kcancel,    \* what cancel_checker() returns
    kret,       \* what ReCAPAgent.run returned: [result, delta], result "pending" until then
    kdispatched,\* subtasks dispatched so far, over all invocations
    kplancalls, \* _plan and _refine model calls issued so far
    kobs,       \* observations: calls and dispatches made with the flag set, flag seen set when a subtask returned
    \* ---- AskHumanManager (SpecAsk) ----
    apc,        \* position of every ask() call: "idle", "poll", "wait", "pop", "done"
    auser,      \* the user every ask() call is for
    aevent,     \* the threading.Event every ask() call created: set or not
    apending,   \* _pending: per user, no slot or [owner, response]
    aflag,      \* per user, what the task's cancel_checker() returns
    aret,       \* what every ask() call returned
    aobs,       \* per call: answers provided and cancellations made while it was blocked
    atask,      \* per user, whether a task of the user is in flight
    astray,     \* whether a message was handed to provide while no ask of the user was blocked
    \* ---- task coordinator of one user (SpecCoord) ----
    cmode,      \* "qq" (entry_qq.py, system handler installed) or "cli" (entry_cli.py)
    cstate,     \* _TaskState: running_task, cancel_requested, pending_input, api
    cqueue,     \* _TaskState.pending_system
    ctasks,     \* every task object and timer-thread run: kind, position, reply, observations
    chandlers,  \* on_c2c_message_create invocations suspended at their first await
    censure,    \* _ensure_system_task callbacks scheduled with call_soon_threadsafe
    ccount,     \* counters: tasks created, user messages received, alarms fired, last system message popped
    \* ---- the tool instances shared by all users (SpecBind) ----
    bactive,    \* _active_user_id (with its _cancel_checker) of the AlarmTool and of the AskHumanTool
    btask,      \* per user, the position of the user's run_task: "idle", "bind_alarm", "bind_ask", "agent"
    bcalls      \* the tool calls executed so far: tool, the user whose task made the call, the user it acted for

histVars == <<hist, full, hcurrent, hctx, hpc, hcancel, hdelta, hreply, hret,
              hsnap, hlast, hruns, nextId>>

winVars == <<wself, win, wpreserve, wtrig, wcaller, wop, warg, wout, wlog, wcalls>>

storeVars == <<sstore, scurrent, spath, sall, slast, srenames, sops, snext>>

normVars == <<nself, ncontent, nouts, nspills>>

reactVars == <<rmsgs, rnew, rpc, rstep, rcancel, rpending, rtoolchars, rtoolcount, rlimit,
               rret, rcalls,
               rfired, rnext>>

toolVars == <<tcalls, tfutures, torder, tresults, tlog, tpc, tcancel, tend>>

planVars == <<pmode, ptask, pfallback, presp, pplan, premaining, pstage>>

recapVars == <<kstack, kmsgs, kcancel, kret, kdispatched, kplancalls, kobs>>

askVars == <<apc, auser, aevent, apending, aflag, aret, aobs, atask, astray>>

coordVars == <<cmode, cstate, cqueue, ctasks, chandlers, censure, ccount>>

bindVars == <<bactive, btask, bcalls>>

vars == <<histVars, winVars, storeVars, normVars, reactVars, toolVars, planVars, recapVars, askVars, coordVars, bindVars>>

\* Each component is explored on its own; its steps leave the others alone.
HistFrame == UNCHANGED <<winVars, storeVars, normVars, reactVars, toolVars, planVars, recapVars, askVars, coordVars, bindVars>>

ReactFrame == UNCHANGED <<histVars, winVars, storeVars, normVars, toolVars, planVars, recapVars, askVars, coordVars, bindVars>>

RecapFrame == UNCHANGED <<histVars, winVars, storeVars, normVars, reactVars, toolVars, planVars, askVars, coordVars, bindVars>>

AskFrame == UNCHANGED <<histVars, winVars, storeVars, normVars, reactVars, toolVars, planVars, recapVars, coordVars, bindVars>>

CoordFrame == UNCHANGED <<histVars, winVars, storeVars, normVars, reactVars, toolVars, planVars, recapVars, askVars, bindVars>>

BindFrame == UNCHANGED <<histVars, winVars, storeVars, normVars, reactVars, toolVars, planVars, recapVars, askVars, coordVars>>

ToolsFrame == UNCHANGED <<histVars, winVars, storeVars, normVars, reactVars, planVars, recapVars, askVars, coordVars, bindVars>>

PlanFrame == UNCHANGED <<histVars, winVars, storeVars, normVars, reactVars, toolVars, recapVars, askVars, coordVars, bindVars>>

WindowFrame == UNCHANGED <<histVars, storeVars, normVars, reactVars, toolVars, planVars, recapVars, askVars, coordVars, bindVars>>

StoreFrame == UNCHANGED <<histVars, winVars, normVars, reactVars, toolVars, planVars, recapVars, askVars, coordVars, bindVars>>

NormFrame == UNCHANGED <<histVars, winVars, storeVars, reactVars, toolVars, planVars, recapVars, askVars, coordVars, bindVars>>

-----------------------------------------------------------------------------
(* Bounds of the model *)

\* ReCAPAgent.max_steps (a constructor argument, default 20)
RecapMaxSteps == 2

\* ReCAPAgent.max_depth (a constructor argument, default 3)
RecapMaxDepth == 1

\* subtasks in one plan or refinement returned by the model
MaxPlan == 2

\* AskHumanManager.ask calls in one behaviour
MaxAsks == 2

\* users of the bot
MaxUsers == 2

\* user messages received in one behaviour of the coordinator
MaxMsgs == 2

\* alarms that fire in one behaviour of the coordinator
MaxAlarms == 2

\* ReActAgent.max_steps (a constructor argument; 20 in the entries)
ReactMaxSteps == 3

\* run_task invocations per behaviour
MaxRuns == 2

\* tool calls of one assistant turn
MaxCalls == 3

\* SpecWindow: body messages of an input list, repeated compress_messages calls
MaxWin == 4

MaxRepeat == 2

-----------------------------------------------------------------------------
(* Messages *)

\* A message: role, content length in characters, serialized tool_calls length,
\* the ids of the tool calls an assistant turn issued, and the tool_call_id of a
\* tool message (0 when absent).  id is the identity of the message.
Msg(id, role, chars, calls, call) ==
    [id |-> id, role |-> role, chars |-> chars, calls |-> calls, call |-> call]

\* Content lengths of user, assistant and tool messages (characters): a short
\* text, and a text that is half of the 60000-token budget on its own.
ContentSizes == {8, 120000}

\* Lengths of the summary text returned by _summarize_messages.
SummarySizes == {200}

RoleLen(role) ==
    CASE role = "system" -> 6
      [] role = "user" -> 4
      [] role = "assistant" -> 9
      [] role = "tool" -> 4

\* len(json.dumps(tool_calls)) for n calls: "[" + n serialized calls + "]"
ToolCallsJsonLen(n) == IF n = 0 THEN 0 ELSE 2 + 90 * n + 2 * (n - 1)

MsgChars(m) == RoleLen(m.role) + 1 + m.chars + ToolCallsJsonLen(Cardinality(m.calls))

RECURSIVE TotalChars(_)
TotalChars(msgs) ==
    IF msgs = <<>> THEN 0 ELSE MsgChars(Head(msgs)) + TotalChars(Tail(msgs))

\* math.ceil(total_chars / 4)
_estimate_tokens(msgs) == (TotalChars(msgs) + 3) \div 4

CountRole(msgs, role) == Cardinality({i \in 1..Len(msgs) : msgs[i].role = role})

Min(a, b) == IF a <= b THEN a ELSE b

_count_rounds(msgs) == Min(CountRole(msgs, "user"), CountRole(msgs, "assistant"))

LastN(msgs, n) ==
    IF Len(msgs) <= n THEN msgs ELSE SubSeq(msgs, Len(msgs) - n + 1, Len(msgs))

DropLastN(msgs, n) ==
    IF Len(msgs) <= n THEN <<>> ELSE SubSeq(msgs, 1, Len(msgs) - n)

\* the synthetic summary message: len("【ContextSummary】") = 16
SummaryMsg(id, slen) == Msg(id, "user", 16 + slen, {}, 0)


-----------------------------------------------------------------------------
(* HistoryManager (context.py).  A store is the pair of files of one       *)
(* session: hist (the durable record) and full (the mirror).               *)

\* HistoryManager._create_new_history: the two files right after creation
NewHistory ==
    [hist |-> [name |-> "ts", renamed |-> FALSE, rounds |-> 0, messages |-> <<>>,
               compressed |-> <<>>],
     full |-> [name |-> "ts", renamed |-> FALSE, rounds |-> 0, messages |-> <<>>]]

\* HistoryManager._append_full_history
_append_full_history(fdata, msgs) ==
    IF msgs = <<>> THEN fdata
    ELSE [fdata EXCEPT !.messages = fdata.messages \o msgs,
                       !.rounds = _count_rounds(fdata.messages \o msgs)]

maybe_compress_counts_all(data, triggered_by_non_assistant, sid, slen) ==
    IF ~triggered_by_non_assistant THEN data
    ELSE IF _estimate_tokens(data.messages) < 60000 THEN data
    ELSE IF Len(data.messages) <= 3 THEN data
    ELSE LET removed == DropLastN(data.messages, 3)
             kept == LastN(data.messages, 3)
             msgs == <<SummaryMsg(sid, slen)>> \o kept
         IN [data EXCEPT
                !.compressed = Append(@, [summary |-> sid, count |-> Len(data.messages),
                                          rounds |-> _count_rounds(removed)]),
                !.messages = msgs,
                !.rounds = _count_rounds(msgs)]

\* HistoryManager.maybe_compress on the durable record; sid and slen are the
\* identity and the length of the summary the summarizer returns.
maybe_compress(data, triggered_by_non_assistant, sid, slen) ==
    IF ~triggered_by_non_assistant THEN data
    ELSE IF _estimate_tokens(data.messages) < 60000 THEN data
    ELSE IF Len(data.messages) <= 3 THEN data
    ELSE LET removed == DropLastN(data.messages, 3)
             kept == LastN(data.messages, 3)
             msgs == <<SummaryMsg(sid, slen)>> \o kept
         IN [data EXCEPT
                !.compressed = Append(@, [summary |-> sid, count |-> Len(removed),
                                          rounds |-> _count_rounds(removed)]),
                !.messages = msgs,
                !.rounds = _count_rounds(msgs)]

\* whether maybe_compress returns True on this record
CompressFires(data, triggered_by_non_assistant) ==
    /\ triggered_by_non_assistant
    /\ _estimate_tokens(data.messages) >= 60000
    /\ Len(data.messages) > 3

append_message_compresses_mirror(st, msg, sid, slen) ==
    LET msgs == Append(st.hist.messages, msg)
        data == [st.hist EXCEPT !.messages = msgs, !.rounds = _count_rounds(msgs)]
        after == maybe_compress(data, msg.role # "assistant", sid, slen)
    IN [hist |-> after,
        full |-> IF after.messages # msgs
                 THEN [st.full EXCEPT !.messages = after.messages, !.rounds = after.rounds]
                 ELSE _append_full_history(st.full, <<msg>>)]

\* HistoryManager.append_message
append_message(st, msg, sid, slen) ==
    LET msgs == Append(st.hist.messages, msg)
        data == [st.hist EXCEPT !.messages = msgs, !.rounds = _count_rounds(msgs)]
    IN [hist |-> maybe_compress(data, msg.role # "assistant", sid, slen),
        full |-> _append_full_history(st.full, <<msg>>)]

\* append_messages with rounds counted over the appended messages only
append_messages_counts_new_only(st, new, sid, slen) ==
    IF new = <<>> THEN st
    ELSE LET msgs == st.hist.messages \o new
             data == [st.hist EXCEPT !.messages = msgs, !.rounds = _count_rounds(new)]
             trig == \E i \in 1..Len(new) : new[i].role # "assistant"
         IN [hist |-> maybe_compress(data, trig, sid, slen),
             full |-> _append_full_history(st.full, new)]

append_messages_always_triggers(st, new, sid, slen) ==
    IF new = <<>> THEN st
    ELSE LET msgs == st.hist.messages \o new
             data == [st.hist EXCEPT !.messages = msgs, !.rounds = _count_rounds(msgs)]
         IN [hist |-> maybe_compress(data, TRUE, sid, slen),
             full |-> _append_full_history(st.full, new)]

\* HistoryManager.append_messages
append_messages(st, new, sid, slen) ==
    IF new = <<>> THEN st
    ELSE LET msgs == st.hist.messages \o new
             data == [st.hist EXCEPT !.messages = msgs, !.rounds = _count_rounds(msgs)]
             trig == \E i \in 1..Len(new) : new[i].role # "assistant"
         IN [hist |-> maybe_compress(data, trig, sid, slen),
             full |-> _append_full_history(st.full, new)]

\* _truncate_file that keeps the stored rounds
_truncate_file_keeps_rounds(data, keep_count) ==
    IF Len(data.messages) <= keep_count THEN data
    ELSE [data EXCEPT !.messages = SubSeq(data.messages, 1, keep_count)]

\* HistoryManager._truncate_file
_truncate_file(data, keep_count) ==
    IF Len(data.messages) <= keep_count THEN data
    ELSE LET msgs == SubSeq(data.messages, 1, keep_count)
         IN [data EXCEPT !.messages = msgs, !.rounds = _count_rounds(msgs)]

\* HistoryManager.truncate_history: both files are cut to the same keep_count
truncate_history(st, keep_count) ==
    [hist |-> _truncate_file(st.hist, keep_count),
     full |-> _truncate_file(st.full, keep_count)]

maybe_rename_after_rounds_at_two(st, rounds) ==
    IF st.hist.renamed THEN st
    ELSE IF rounds < 2 THEN st
    ELSE [hist |-> [st.hist EXCEPT !.name = "ts_slug", !.renamed = TRUE],
          full |-> [st.full EXCEPT !.name = "ts_slug", !.renamed = TRUE]]

\* HistoryManager.maybe_rename_after_rounds: the store after the call
maybe_rename_after_rounds(st, rounds) ==
    IF st.hist.renamed THEN st
    ELSE IF rounds < 3 THEN st
    ELSE [hist |-> [st.hist EXCEPT !.name = "ts_slug", !.renamed = TRUE],
          full |-> [st.full EXCEPT !.name = "ts_slug", !.renamed = TRUE]]

Store == [hist |-> hist, full |-> full]

-----------------------------------------------------------------------------
(* The deltas (new_messages) an agent run returns *)

\* Content lengths of a final answer: empty, short, long.
AnswerSizes == {0} \cup ContentSizes

\* ReActAgent.run: k tool calls in one assistant turn, their k tool messages,
\* then the final answer.  A tool call is named by the id of the tool message
\* that answers it.
ReActDelta(id0, k, toolChars, answerChars) ==
    IF k = 0 THEN <<Msg(id0, "assistant", answerChars, {}, 0)>>
    ELSE <<Msg(id0, "assistant", 0, (id0 + 1)..(id0 + k), 0)>>
         \o [j \in 1..k |-> Msg(id0 + j, "tool", toolChars, {}, id0 + j)]
         \o <<Msg(id0 + k + 1, "assistant", answerChars, {}, 0)>>

\* ReCAPAgent.run with a single primitive subtask: the plan, the subtask marker,
\* the ReAct delta of the subtask and the re-injection.
ReCAPDelta(id0, answerChars) ==
    <<Msg(id0, "assistant", 40, {}, 0), Msg(id0 + 1, "user", 20, {}, 0),
      Msg(id0 + 2, "assistant", answerChars, {}, 0),
      Msg(id0 + 3, "assistant", 60 + answerChars, {}, 0)>>

AgentDeltas(id0) ==
    {ReActDelta(id0, k, tc, ac) : k \in 0..MaxCalls, tc \in ContentSizes, ac \in AnswerSizes}
    \cup {ReCAPDelta(id0, ac) : ac \in AnswerSizes}

\* the reply text of a delta: the content of its final answer
ReplyOf(delta) ==
    IF delta = <<>> THEN "empty"
    ELSE IF \E i \in 1..Len(delta) :
               delta[i].role = "assistant" /\ delta[i].calls = {} /\ delta[i].chars = 0
         THEN "empty" ELSE "text"

-----------------------------------------------------------------------------
(* LittleAngelBot.run_task against the store (SpecHist) *)

HistInit ==
    /\ hist = NewHistory.hist
    /\ full = NewHistory.full
    /\ hcurrent = "ts"
    /\ hctx = [history_path |-> "ts", baseline |-> 0, messages |-> <<>>]
    /\ hpc = "idle"
    /\ hcancel = FALSE
    /\ hdelta = <<>>
    /\ hreply = "none"
    /\ hret = "pending"
    /\ hsnap = NewHistory
    /\ hlast = [op |-> "create", compressed |-> FALSE]
    /\ hruns = 0
    /\ nextId = 1

\* the coordinator starts a task: cancel_requested = False, create_task
StartTask ==
    /\ hpc = "idle"
    /\ hruns < MaxRuns
    /\ hruns' = hruns + 1
    /\ hcancel' = FALSE
    /\ hpc' = "created"
    /\ hret' = "pending"
    /\ hreply' = "none"
    /\ hdelta' = <<>>
    /\ UNCHANGED <<hist, full, hcurrent, hctx, hsnap, hlast, nextId>>
    /\ HistFrame

\* the coordinator receives the stop keyword while the task is in flight
StopRequested ==
    /\ hpc # "idle"
    /\ ~hcancel
    /\ hcancel' = TRUE
    /\ UNCHANGED <<hist, full, hcurrent, hctx, hpc, hdelta, hreply, hret, hsnap,
                   hlast, hruns, nextId>>
    /\ HistFrame

\* run_task: open_context, then context.append_message("user", content)
RunTaskOpen ==
    /\ hpc = "created"
    /\ \E chars \in ContentSizes, slen \in SummarySizes :
          LET msg == Msg(nextId, "user", chars, {}, 0)
              st == append_message(Store, msg, nextId + 1, slen)
          IN /\ hist' = st.hist
             /\ full' = st.full
             /\ hsnap' = Store
             /\ hctx' = [history_path |-> hcurrent,
                         baseline |-> Len(hist.messages),
                         messages |-> st.hist.messages]
             /\ hlast' = [op |-> "append_message",
                          compressed |-> Len(st.hist.compressed) > Len(hist.compressed)]
    /\ nextId' = nextId + 2
    /\ hpc' = "check1"
    /\ UNCHANGED <<hcurrent, hcancel, hdelta, hreply, hret, hruns>>
    /\ HistFrame

\* ConversationContext.rollback
Rollback ==
    LET st == truncate_history(Store, hctx.baseline)
    IN /\ hist' = st.hist
       /\ full' = st.full
       /\ hctx' = [hctx EXCEPT !.messages = st.hist.messages]
       /\ hlast' = [op |-> "rollback", compressed |-> FALSE]

\* run_task: the cancel check before routing
RunTaskCheck1 ==
    /\ hpc = "check1"
    /\ IF hcancel
       THEN /\ Rollback
            /\ hret' = "None"
            /\ hpc' = "idle"
       ELSE /\ hpc' = "agent"
            /\ UNCHANGED <<hist, full, hctx, hlast, hret>>
    /\ UNCHANGED <<hcurrent, hcancel, hdelta, hreply, hsnap, hruns, nextId>>
    /\ HistFrame

\* run_task: recap_agent.run or react_agent.run returns.  An agent that saw the
\* cancel flag returns ("", []).
RunTaskAgent ==
    /\ hpc = "agent"
    /\ \/ \E d \in AgentDeltas(nextId) :
             /\ hdelta' = d
             /\ hreply' = ReplyOf(d)
             /\ nextId' = nextId + Len(d)
       \/ /\ hcancel
          /\ hdelta' = <<>>
          /\ hreply' = "empty"
          /\ nextId' = nextId
    /\ hpc' = "check2"
    /\ UNCHANGED <<hist, full, hcurrent, hctx, hcancel, hret, hsnap, hlast, hruns>>
    /\ HistFrame

\* run_task, lines 100-108: a model call of the agent fails (get_response,
\* ReAct.py line 19, has no handler and neither have the agents); run_task has
\* no try around the agent run, so the exception leaves it at once: no
\* rollback, no append_messages, no finalize
RunTaskAgentRaises ==
    /\ hpc = "agent"
    /\ hret' = "raised"
    /\ hpc' = "idle"
    /\ UNCHANGED <<hist, full, hcurrent, hctx, hcancel, hdelta, hreply, hsnap, hlast,
                   hruns, nextId>>
    /\ HistFrame

\* run_task: the cancel check after the agent returned
RunTaskCheck2 ==
    /\ hpc = "check2"
    /\ IF hcancel
       THEN /\ Rollback
            /\ hret' = "None"
            /\ hpc' = "idle"
       ELSE /\ hpc' = "append"
            /\ UNCHANGED <<hist, full, hctx, hlast, hret>>
    /\ UNCHANGED <<hcurrent, hcancel, hdelta, hreply, hsnap, hruns, nextId>>
    /\ HistFrame

\* run_task: context.append_messages(new_messages)
RunTaskAppend ==
    /\ hpc = "append"
    /\ \E slen \in SummarySizes :
          LET st == append_messages(Store, hdelta, nextId, slen)
          IN /\ hist' = st.hist
             /\ full' = st.full
             /\ hctx' = [hctx EXCEPT !.messages = st.hist.messages]
             /\ hlast' = [op |-> "append_messages",
                          compressed |-> Len(st.hist.compressed) > Len(hist.compressed)]
    /\ nextId' = nextId + 1
    /\ hpc' = "finalize"
    /\ UNCHANGED <<hcurrent, hcancel, hdelta, hreply, hret, hsnap, hruns>>
    /\ HistFrame

\* run_task: context.finalize(), then return reply_text
RunTaskFinalize ==
    /\ hpc = "finalize"
    /\ LET st == maybe_rename_after_rounds(Store, hist.rounds)
       IN /\ hist' = st.hist
          /\ full' = st.full
          /\ hcurrent' = IF st.hist.name # hctx.history_path THEN st.hist.name ELSE hcurrent
          /\ hctx' = [hctx EXCEPT !.history_path = st.hist.name]
    /\ hlast' = [op |-> "finalize", compressed |-> FALSE]
    /\ hret' = hreply
    /\ hpc' = "idle"
    /\ UNCHANGED <<hcancel, hdelta, hreply, hsnap, hruns, nextId>>
    /\ HistFrame

NextHist ==
    \/ StartTask
    \/ StopRequested
    \/ RunTaskOpen
    \/ RunTaskCheck1
    \/ RunTaskAgent
    \/ RunTaskAgentRaises
    \/ RunTaskCheck2
    \/ RunTaskAppend
    \/ RunTaskFinalize


-----------------------------------------------------------------------------
(* Properties of the history store, checked under SpecHist *)

\* run_task has just returned through one of its two rollback branches
RolledBack == hpc = "idle" /\ hlast.op = "rollback"

\* C2: whenever run_task saw the cancel flag and rolled back, it returns no
\* reply and the durable record's message list is exactly the list that was
\* loaded when the context was opened.
C2_RollbackRestoresRecord ==
    RolledBack =>
        /\ hret = "None"
        /\ hist.messages = hsnap.hist.messages

\* C3: rollback removes from the mirror exactly the messages appended through
\* the handle since it was opened: the mirror after rollback is the mirror as
\* it was at open, nothing older is lost.
C3_RollbackKeepsMirror ==
    RolledBack => full.messages = hsnap.full.messages

\* C8 (as claimed): the rounds value of the durable record decreases only on an
\* explicit rollback/truncate.
C8_RoundsDecreaseOnlyOnRollback ==
    [][hist'.rounds < hist.rounds => hlast'.op = "rollback"]_histVars

\* C8 (amended): over every sequence of store operations the rounds value of
\* the durable record decreases only on an explicit rollback/truncate or in an
\* append whose auto-compression fired; every other append and every finalize
\* leaves it equal or larger.
C8_RoundsDecreaseOnlyOnRollbackOrCompression ==
    [][hist'.rounds < hist.rounds =>
          (hlast'.op = "rollback" \/ hlast'.compressed)]_histVars

\* C8 witness: an append_messages that did not compress has brought the record
\* to two rounds.
C8_Witness ==
    /\ hlast.op = "append_messages"
    /\ ~hlast.compressed
    /\ hist.rounds >= 2

\* C9: after every store operation the stored rounds field of the durable
\* record equals min(#user, #assistant) over the messages stored in it, and
\* the same holds for the mirror.
C9_RoundsMatchMessages ==
    /\ hist.rounds = Min(CountRole(hist.messages, "user"),
                         CountRole(hist.messages, "assistant"))
    /\ full.rounds = Min(CountRole(full.messages, "user"),
                         CountRole(full.messages, "assistant"))

\* C9 witness: a rollback after an earlier compression, with rounds counted in
\* both files and the mirror differing from the record.
C9_Witness ==
    /\ RolledBack
    /\ Len(hist.compressed) > 0
    /\ hist.rounds > 0
    /\ full.rounds > 0
    /\ full.messages # hist.messages

\* C40: when run_task ends because a model call failed, the durable record
\* holds no partially committed turn: its messages are those loaded when the
\* session was opened, as after a cancellation.
C40_FailedRunLeavesRecordAsOpened ==
    (hpc = "idle" /\ hret = "raised") => hist.messages = hsnap.hist.messages

-----------------------------------------------------------------------------
(* ContextWindowManager (context.py) *)

\* ContextWindowManager.estimate_tokens
estimate_tokens(msgs) == (TotalChars(msgs) + 3) \div 4

\* the defaults of ContextWindowManager.__init__
max_tokens == 60000

min_keep == 6

\* ContextWindowManager.__init__: the fields the policies read
ContextWindowManager(max, keep) ==
    [max_tokens |-> max, min_keep |-> IF keep < 1 THEN 1 ELSE keep]

\* the manager LittleAngelBot builds and hands to the store and to both agents
context_manager == ContextWindowManager(max_tokens, min_keep)

\* whether compress_messages replaces a prefix by a summary
CompressMessagesFires(self, msgs, preserve_system, triggered_by_non_assistant) ==
    /\ msgs # <<>>
    /\ triggered_by_non_assistant
    /\ estimate_tokens(msgs) >= self.max_tokens
    /\ LET start == IF preserve_system /\ msgs[1].role = "system" THEN 1 ELSE 0
       IN Len(msgs) - start > 3

compress_messages_keeps_two(self, msgs, preserve_system, triggered_by_non_assistant, sid, slen) ==
    IF msgs = <<>> THEN <<>>
    ELSE IF ~triggered_by_non_assistant THEN msgs
    ELSE IF estimate_tokens(msgs) < self.max_tokens THEN msgs
    ELSE LET has_system == preserve_system /\ msgs[1].role = "system"
             system_msg == IF has_system THEN <<msgs[1]>> ELSE <<>>
             body == IF has_system THEN Tail(msgs) ELSE msgs
         IN IF Len(body) <= 3 THEN msgs
            ELSE system_msg \o <<SummaryMsg(sid, slen)>> \o LastN(body, 2)

compress_messages_ignores_trigger(self, msgs, preserve_system, triggered_by_non_assistant, sid, slen) ==
    IF msgs = <<>> THEN <<>>
    ELSE IF estimate_tokens(msgs) < self.max_tokens THEN msgs
    ELSE LET has_system == preserve_system /\ msgs[1].role = "system"
             system_msg == IF has_system THEN <<msgs[1]>> ELSE <<>>
             body == IF has_system THEN Tail(msgs) ELSE msgs
         IN IF Len(body) <= 3 THEN msgs
            ELSE system_msg \o <<SummaryMsg(sid, slen)>> \o LastN(body, 3)

\* ContextWindowManager.compress_messages; sid and slen are the identity and
\* the length of the summary.
compress_messages(self, msgs, preserve_system, triggered_by_non_assistant, sid, slen) ==
    IF msgs = <<>> THEN <<>>
    ELSE IF ~triggered_by_non_assistant THEN msgs
    ELSE IF estimate_tokens(msgs) < self.max_tokens THEN msgs
    ELSE LET has_system == preserve_system /\ msgs[1].role = "system"
             system_msg == IF has_system THEN <<msgs[1]>> ELSE <<>>
             body == IF has_system THEN Tail(msgs) ELSE msgs
         IN IF Len(body) <= 3 THEN msgs
            ELSE system_msg \o <<SummaryMsg(sid, slen)>> \o LastN(body, 3)

\* the while loop of window_messages: drop from the front while over budget
\* and more than one body message is kept
RECURSIVE ShrinkWindow(_, _, _)
ShrinkWindow(self, system_msg, keep) ==
    IF estimate_tokens(system_msg \o keep) > self.max_tokens /\ Len(keep) > 1
    THEN ShrinkWindow(self, system_msg, Tail(keep))
    ELSE system_msg \o keep

\* ContextWindowManager.window_messages
window_messages_without_loop(self, msgs, preserve_system) ==
    IF msgs = <<>> THEN <<>>
    ELSE IF estimate_tokens(msgs) <= self.max_tokens THEN msgs
    ELSE LET has_system == preserve_system /\ msgs[1].role = "system"
             system_msg == IF has_system THEN <<msgs[1]>> ELSE <<>>
             body == IF has_system THEN Tail(msgs) ELSE msgs
         IN IF body = <<>> THEN msgs
            ELSE system_msg \o LastN(body, self.min_keep)

window_messages(self, msgs, preserve_system) ==
    IF msgs = <<>> THEN <<>>
    ELSE IF estimate_tokens(msgs) <= self.max_tokens THEN msgs
    ELSE LET has_system == preserve_system /\ msgs[1].role = "system"
             system_msg == IF has_system THEN <<msgs[1]>> ELSE <<>>
             body == IF has_system THEN Tail(msgs) ELSE msgs
         IN IF body = <<>> THEN msgs
            ELSE ShrinkWindow(self, system_msg, LastN(body, self.min_keep))

-----------------------------------------------------------------------------
(* One session of the store under any sequence of append_message,         *)
(* append_messages and finalize of its ConversationContext (SpecStore).   *)
(* The messages are those run_task and the agents pass: tool results come *)
(* out of ReActAgent.run already normalized (ReAct.py line 113) or from   *)
(* the skill tool, so _normalize_message returns every message as it is.  *)

\* number of operations on the session
MaxOps == 5

\* a session two turns old: two user messages and two answers
TwoRounds ==
    LET msgs == <<Msg(1, "user", 8, {}, 0), Msg(2, "assistant", 8, {}, 0),
                  Msg(3, "user", 8, {}, 0), Msg(4, "assistant", 8, {}, 0)>>
    IN [hist |-> [NewHistory.hist EXCEPT !.messages = msgs, !.rounds = 2],
        full |-> [NewHistory.full EXCEPT !.messages = msgs, !.rounds = 2]]

\* the lists append_messages is given: nothing, a final answer, a tool turn
\* with its answer, a ReCAP run
StoreDeltas(id0) ==
    {<<>>}
    \cup {ReActDelta(id0, k, chars, 8) : k \in {0, 1}, chars \in ContentSizes}
    \cup {ReCAPDelta(id0, chars) : chars \in ContentSizes}

StoreInit ==
    /\ sstore \in {NewHistory, TwoRounds}
    /\ scurrent = "ts"
    /\ spath = "ts"
    /\ sall = sstore.full.messages
    /\ slast = [op |-> "open", new |-> <<>>, before |-> sstore, path |-> "ts",
                current |-> "ts", fired |-> FALSE]
    /\ srenames = 0
    /\ sops = 0
    /\ snext = Len(sstore.full.messages) + 1

\* ConversationContext.append_message(role, content)
StoreAppendMessage ==
    /\ sops < MaxOps
    /\ \E role \in {"user", "assistant"}, chars \in ContentSizes, slen \in SummarySizes :
          LET msg == Msg(snext, role, chars, {}, 0)
              data == [sstore.hist EXCEPT !.messages = Append(@, msg)]
          IN /\ sstore' = append_message(sstore, msg, snext + 1, slen)
             /\ sall' = Append(sall, msg)
             /\ slast' = [op |-> "append_message", new |-> <<msg>>, before |-> sstore,
                          path |-> spath, current |-> scurrent,
                          fired |-> CompressFires(data, role # "assistant")]
    /\ snext' = snext + 2
    /\ sops' = sops + 1
    /\ UNCHANGED <<scurrent, spath, srenames>>
    /\ StoreFrame

\* ConversationContext.append_messages(messages)
StoreAppendMessages ==
    /\ sops < MaxOps
    /\ \E new \in StoreDeltas(snext), slen \in SummarySizes :
          LET data == [sstore.hist EXCEPT !.messages = @ \o new]
              trig == \E i \in 1..Len(new) : new[i].role # "assistant"
          IN /\ sstore' = append_messages(sstore, new, snext + Len(new), slen)
             /\ sall' = sall \o new
             /\ slast' = [op |-> "append_messages", new |-> new, before |-> sstore,
                          path |-> spath, current |-> scurrent,
                          fired |-> new # <<>> /\ CompressFires(data, trig)]
             /\ snext' = snext + Len(new) + 1
    /\ sops' = sops + 1
    /\ UNCHANGED <<scurrent, spath, srenames>>
    /\ StoreFrame

\* ConversationContext.finalize
StoreFinalize ==
    /\ sops < MaxOps
    /\ LET st == maybe_rename_after_rounds(sstore, sstore.hist.rounds)
           new_path == st.hist.name
       IN /\ sstore' = st
          /\ spath' = new_path
          /\ scurrent' = IF new_path # spath THEN new_path ELSE scurrent
          /\ srenames' = IF new_path # spath THEN srenames + 1 ELSE srenames
    /\ slast' = [op |-> "finalize", new |-> <<>>, before |-> sstore, path |-> spath,
                 current |-> scurrent, fired |-> FALSE]
    /\ sops' = sops + 1
    /\ UNCHANGED <<sall, snext>>
    /\ StoreFrame

NextStore ==
    \/ StoreAppendMessage
    \/ StoreAppendMessages
    \/ StoreFinalize

\* the files carry another name than before the last operation
JustRenamed == sstore.hist.name # slast.before.hist.name

\* C26: over any sequence of appends and finalize calls on a session the
\* backing record is renamed at most once, and only at a finalize where
\* rounds >= 3 and renamed is false; after that finalize renamed is true in
\* the record and in its mirror, both are stored under the new name, the
\* user's current-session pointer names the renamed record, and every later
\* finalize leaves name, path and pointer unchanged.
C26_RenamedOnceAtFinalize ==
    /\ srenames <= 1
    /\ JustRenamed =>
          /\ slast.op = "finalize"
          /\ slast.before.hist.rounds >= 3
          /\ ~slast.before.hist.renamed
          /\ srenames = 1
    /\ (srenames = 1 \/ sstore.hist.renamed) =>
          /\ sstore.hist.renamed /\ sstore.full.renamed
          /\ sstore.hist.name # "ts"
          /\ sstore.full.name = sstore.hist.name
          /\ spath = sstore.hist.name
          /\ scurrent = sstore.hist.name
    /\ (slast.op = "finalize" /\ slast.before.hist.renamed) =>
          /\ sstore.hist.name = slast.before.hist.name
          /\ sstore.full.name = slast.before.full.name
          /\ spath = slast.path
          /\ scurrent = slast.current

\* a finalize on the session that an earlier finalize renamed
C26_Witness ==
    /\ slast.op = "finalize"
    /\ slast.before.hist.renamed
    /\ srenames = 1
    /\ scurrent = "ts_slug"

\* the messages of the record when the last append evaluated compression
StoredAtAppend == slast.before.hist.messages \o slast.new

\* C27: every compression event appends exactly one entry to the record's
\* compression log, whose removed-message count is the number of messages the
\* summary replaced, and leaves the earlier entries as they were; after the
\* compression the stored rounds is min(#user, #assistant) over the retained
\* messages, the summary message and the last 3.
C27_OneLogEntryPerCompression ==
    LET log == sstore.hist.compressed
        before == slast.before.hist.compressed
    IN /\ slast.fired =>
             /\ Len(log) = Len(before) + 1
             /\ SubSeq(log, 1, Len(before)) = before
             /\ log[Len(log)].count = Len(StoredAtAppend) - 3
             /\ Len(sstore.hist.messages) = 4
             /\ sstore.hist.messages[1].role = "user"
             /\ sstore.hist.messages[1].id = log[Len(log)].summary
             /\ Tail(sstore.hist.messages) = LastN(StoredAtAppend, 3)
             /\ sstore.hist.rounds = _count_rounds(sstore.hist.messages)
       /\ ~slast.fired => log = before

\* a second compression of the session, which lowers the stored rounds
C27_Witness ==
    /\ slast.fired
    /\ Len(slast.before.hist.compressed) >= 1
    /\ Len(StoredAtAppend) > 5
    /\ sstore.hist.rounds < _count_rounds(StoredAtAppend)

IsAppend == slast.op \in {"append_message", "append_messages"}

OnlyAssistant == \A i \in 1..Len(slast.new) : slast.new[i].role = "assistant"

\* the last operation replaced stored messages or wrote to the compression log
RecordCompressed ==
    \/ sstore.hist.compressed # slast.before.hist.compressed
    \/ sstore.hist.messages # StoredAtAppend

\* C28: durable auto-compression is evaluated only as part of an append that
\* contains at least one non-assistant message, and never fires when the
\* record holds 3 or fewer messages: an append of assistant messages only
\* leaves the stored messages and the compression log as they were, whatever
\* the token count.
C28_CompressionOnlyOnNonAssistantAppend ==
    /\ RecordCompressed =>
          /\ IsAppend
          /\ ~OnlyAssistant
          /\ Len(StoredAtAppend) > 3
    /\ (IsAppend /\ OnlyAssistant) =>
          /\ SubSeq(sstore.hist.messages, 1, Len(slast.before.hist.messages))
                = slast.before.hist.messages
          /\ sstore.hist.messages = StoredAtAppend
          /\ sstore.hist.compressed = slast.before.hist.compressed

\* assistant messages appended to a record of more than 3 messages that is
\* over the threshold
C28_Witness ==
    /\ slast.op = "append_messages"
    /\ slast.new # <<>>
    /\ OnlyAssistant
    /\ Len(StoredAtAppend) > 3
    /\ _estimate_tokens(StoredAtAppend) >= 60000
    /\ sstore.hist.messages = StoredAtAppend

-----------------------------------------------------------------------------
(* The policies of ContextWindowManager called on message lists, SpecWindow *)

\* Content lengths of the lists: a user message of 11 characters is 4 tokens,
\* one of 59995 characters is 15000 tokens.
WinSizes == {11, 59995}

\* the budgets: one that five short messages fill exactly, and the default
Budgets == {20, max_tokens}

MinKeeps == {2, min_keep}

\* a system prompt of 4 tokens
WinSystemMsg == Msg(0, "system", 9, {}, 0)

\* body messages: position i holds the message of identity i
WinBodies ==
    UNION {[1..n -> {"user", "assistant"} \X WinSizes] : n \in 0..MaxWin}

WinBody(spec) ==
    IF Len(spec) = 0 THEN <<>>
    ELSE [i \in 1..Len(spec) |-> Msg(i, spec[i][1], spec[i][2], {}, 0)]

WinInputs ==
    {WinBody(b) : b \in WinBodies} \cup {<<WinSystemMsg>> \o WinBody(b) : b \in WinBodies}

\* `messages and messages[-1].get("role") != "assistant"`
TriggeredByNonAssistant(msgs) ==
    msgs # <<>> /\ msgs[Len(msgs)].role # "assistant"

\* the body compress_messages and window_messages work on
BodyOf(msgs, preserve_system) ==
    IF msgs # <<>> /\ preserve_system /\ msgs[1].role = "system" THEN Tail(msgs) ELSE msgs

SystemOf(msgs, preserve_system) ==
    IF msgs # <<>> /\ preserve_system /\ msgs[1].role = "system" THEN <<msgs[1]>> ELSE <<>>

WindowInit ==
    /\ wself \in {ContextWindowManager(b, k) : b \in Budgets, k \in MinKeeps}
    /\ win \in WinInputs
    /\ wpreserve \in BOOLEAN
    /\ wcaller \in {"direct", "agent"}
    /\ wcaller = "agent" => Len(win) > 0
    /\ wtrig \in IF wcaller = "agent" THEN {TriggeredByNonAssistant(win)} ELSE BOOLEAN
    /\ wop = "none"
    /\ warg = <<>>
    /\ wout = <<>>
    /\ wlog = <<>>
    /\ wcalls = 0

\* compress_messages is called on the list, or again on what it returned; an
\* agent computes the flag from the list it passes
CallCompress ==
    /\ wop \in {"none", "compress"}
    /\ wcalls < MaxRepeat
    /\ LET arg == IF wop = "none" THEN win ELSE wout
           trig == IF wcaller = "agent" THEN TriggeredByNonAssistant(arg) ELSE wtrig
       IN /\ \E slen \in SummarySizes :
                wout' = compress_messages(wself, arg, wpreserve, trig, Len(win) + wcalls + 1, slen)
          /\ warg' = arg
          /\ wtrig' = trig
    /\ wop' = "compress"
    /\ wcalls' = wcalls + 1
    /\ UNCHANGED <<wself, win, wpreserve, wcaller, wlog>>
    /\ WindowFrame

\* window_messages is called on the list
CallWindow ==
    /\ wop = "none"
    /\ wout' = window_messages(wself, win, wpreserve)
    /\ warg' = win
    /\ wop' = "window"
    /\ wcalls' = wcalls + 1
    /\ UNCHANGED <<wself, win, wpreserve, wtrig, wcaller, wlog>>
    /\ WindowFrame

\* HistoryManager.maybe_compress is called on a record that holds the list;
\* the store was built with the manager wself
CallMaybeCompress ==
    /\ wop = "none"
    /\ IF Len(win) = 0 THEN TRUE ELSE win[1].role # "system"
    /\ \E slen \in SummarySizes :
          LET data == [NewHistory.hist EXCEPT !.messages = win,
                                              !.rounds = _count_rounds(win)]
              after == maybe_compress(data, wtrig, Len(win) + 1, slen)
          IN /\ wout' = after.messages
             /\ wlog' = after.compressed
    /\ warg' = win
    /\ wop' = "durable"
    /\ wcalls' = wcalls + 1
    /\ UNCHANGED <<wself, win, wpreserve, wtrig, wcaller>>
    /\ WindowFrame

NextWindow ==
    \/ CallCompress
    \/ CallWindow
    \/ CallMaybeCompress

\* C21: compress_messages returns its input unchanged whenever the estimate
\* does not exceed the budget (the estimate equal to max_tokens included) and
\* whenever the non-system body has 3 or fewer messages; it compresses only
\* when the estimate exceeds the budget and the body has more than 3 messages.
C21_CompressOnlyOverBudget ==
    wop = "compress" =>
        /\ estimate_tokens(warg) <= wself.max_tokens => wout = warg
        /\ Len(BodyOf(warg, wpreserve)) <= 3 => wout = warg
        /\ wout # warg =>
              /\ estimate_tokens(warg) > wself.max_tokens
              /\ Len(BodyOf(warg, wpreserve)) > 3

\* C21 with the comparison the code makes: unchanged below the budget
C21_CompressFromBudgetOn ==
    wop = "compress" =>
        /\ estimate_tokens(warg) < wself.max_tokens => wout = warg
        /\ Len(BodyOf(warg, wpreserve)) <= 3 => wout = warg
        /\ wout # warg =>
              /\ estimate_tokens(warg) >= wself.max_tokens
              /\ Len(BodyOf(warg, wpreserve)) > 3

\* C22: compress_messages with triggered_by_non_assistant false returns a
\* sequence equal to its input, whatever the messages and the token count, so
\* repeated non-triggering calls never change the transcript; an agent (the
\* ReAct loop, ReCAP planning and refinement) passes the flag false exactly
\* when the last message of the list it passes is an assistant message.
C22_NoTriggerNoChange ==
    wop = "compress" =>
        /\ ~wtrig => wout = warg /\ wout = win
        /\ wcaller = "agent" => (~wtrig <=> warg[Len(warg)].role = "assistant")

\* a second non-triggering call by an agent on an over-budget list of more
\* than 3 body messages
C22_Witness ==
    /\ wop = "compress"
    /\ wcaller = "agent"
    /\ ~wtrig
    /\ wcalls = MaxRepeat
    /\ estimate_tokens(warg) > wself.max_tokens
    /\ Len(BodyOf(warg, wpreserve)) > 3
    /\ wout = win

\* C23: when compress_messages fires, its output is exactly the leading
\* system message (if preserve_system and present), then one synthetic
\* user-role message carrying the context-summary tag, then the last 3 body
\* messages verbatim and in their order; every other body message is absent
\* from the output, and the list the caller passed is as it was.
C23_SummaryThenLastThree ==
    (wop = "compress" /\ CompressMessagesFires(wself, warg, wpreserve, wtrig)) =>
        LET system_msg == SystemOf(warg, wpreserve)
            body == BodyOf(warg, wpreserve)
            n == Len(system_msg)
        IN /\ Len(wout) = n + 4
           /\ SubSeq(wout, 1, n) = system_msg
           /\ wout[n + 1].role = "user"
           /\ wout[n + 1].chars \in {16 + slen : slen \in SummarySizes}
           /\ \A i \in 1..Len(warg) : warg[i].id # wout[n + 1].id
           /\ SubSeq(wout, n + 2, n + 4) = SubSeq(body, Len(body) - 2, Len(body))
           /\ \A i \in 1..(Len(body) - 3) : \A j \in 1..Len(wout) : wout[j] # body[i]
           /\ wcalls = 1 => warg = win

\* a firing call that keeps a system message and drops one body message
C23_Witness ==
    /\ wop = "compress"
    /\ CompressMessagesFires(wself, warg, wpreserve, wtrig)
    /\ SystemOf(warg, wpreserve) # <<>>
    /\ Len(BodyOf(warg, wpreserve)) = 4
    /\ Len(wout) = 5

\* what window_messages returns is the input when within budget and
\* otherwise the preserved system message followed by a suffix of the rest
WindowShape ==
    /\ estimate_tokens(warg) <= wself.max_tokens => wout = warg
    /\ estimate_tokens(warg) > wself.max_tokens =>
          \E k \in 0..Len(BodyOf(warg, wpreserve)) :
              wout = SystemOf(warg, wpreserve) \o LastN(BodyOf(warg, wpreserve), k)

\* C24: for every message sequence, window_messages returns the input
\* unchanged when it is within budget; otherwise it returns the leading system
\* message (if preserved) followed by a contiguous suffix of the remaining
\* messages, and the returned sequence is within budget whenever more than
\* one message remains in it.
C24_WindowWithinBudget ==
    wop = "window" =>
        /\ WindowShape
        /\ Len(wout) > 1 => estimate_tokens(wout) <= wself.max_tokens

\* C24 with the count the loop tests: the returned sequence is within budget
\* whenever more than one message other than the preserved system message
\* remains in it.
C24_WindowWithinBudgetBody ==
    wop = "window" =>
        /\ WindowShape
        /\ Len(BodyOf(wout, wpreserve)) > 1 => estimate_tokens(wout) <= wself.max_tokens

\* an over-budget list is cut to a shorter one that keeps several body messages
C24_Witness ==
    /\ wop = "window"
    /\ estimate_tokens(warg) > wself.max_tokens
    /\ Len(wout) < Len(warg)
    /\ SystemOf(wout, wpreserve) # <<>>
    /\ Len(BodyOf(wout, wpreserve)) > 1
    /\ estimate_tokens(wout) <= wself.max_tokens

\* the record maybe_compress was called on, and what compress_messages of
\* the store's manager returns for the same list without a system message
DurableData == [NewHistory.hist EXCEPT !.messages = warg, !.rounds = _count_rounds(warg)]

SameAsRuntime ==
    /\ CompressFires(DurableData, wtrig) <=> CompressMessagesFires(wself, warg, FALSE, wtrig)
    /\ \E slen \in SummarySizes :
          wout = compress_messages(wself, warg, FALSE, wtrig, Len(win) + 1, slen)

\* C30: HistoryManager.maybe_compress runs the algorithm of
\* compress_messages without a system message: for every message list and
\* every budget configured on the manager the store was built with, the two
\* fire on the same inputs and retain the same sequence, one summary message
\* followed by the last 3 messages.
C30_DurableSameAsRuntime ==
    wop = "durable" => SameAsRuntime

\* C30 for a store whose manager has the default budget
C30_DurableSameAtDefaultBudget ==
    (wop = "durable" /\ wself.max_tokens = max_tokens) => SameAsRuntime

-----------------------------------------------------------------------------
(* ContextWindowManager.normalize_tool_output, SpecNormalize.  A content   *)
(* is the prefaces it starts with (outermost first, each naming a path; 0  *)
(* is the unknown path), the text it was cut from, and how many characters *)
(* of that text follow the prefaces.                                       *)

\* number of calls made in a row, each on what the call before returned
MaxNorm == 3

Content(pre, text, len) == [pre |-> pre, text |-> text, len |-> len]

\* length of the preface: 54 fixed characters and the path, 4 characters
\* for the unknown path and 46 for tool_outputs/tool_output_<time>_<n>.txt
PrefaceLen(path) == IF path = 0 THEN 58 ELSE 100

RECURSIVE PrefacesLen(_)
PrefacesLen(pre) ==
    IF pre = <<>> THEN 0 ELSE PrefaceLen(Head(pre)) + PrefacesLen(Tail(pre))

\* len(content)
ContentLen(content) == PrefacesLen(content.pre) + content.len

\* content.startswith("该工具的返回结果因为超长被放到了")
StartsWithPreface(content) == content.pre # <<>>

\* content[:1000]; the prefaces of a content are shorter than 1000 characters
First1000(content) ==
    IF ContentLen(content) <= 1000 THEN content
    ELSE Content(content.pre, content.text, 1000 - PrefacesLen(content.pre))

\* prefix + content[:1000]
Prefaced(path, content) ==
    LET head == First1000(content) IN Content(<<path>> \o head.pre, head.text, head.len)

\* _write_tool_output: the path written, or 0 for None; write_ok is whether
\* open/write succeeds
_write_tool_output(self, content, write_ok) ==
    IF ~self.dir THEN [path |-> 0, self |-> self]
    ELSE LET index == self.index + 1
         IN IF write_ok
            THEN [path |-> index,
                  self |-> [self EXCEPT !.index = index,
                                        !.files = @ \cup {[path |-> index, content |-> content]}]]
            ELSE [path |-> 0, self |-> [self EXCEPT !.index = index]]

normalize_tool_output_without_preface_check(self, content, write_ok) ==
    IF ContentLen(content) <= 10000 THEN [out |-> content, self |-> self]
    ELSE LET written == _write_tool_output(self, content, write_ok)
         IN [out |-> Prefaced(written.path, content), self |-> written.self]

\* normalize_tool_output on a string
normalize_tool_output(self, content, write_ok) ==
    IF ContentLen(content) <= 10000 THEN [out |-> content, self |-> self]
    ELSE IF StartsWithPreface(content) THEN [out |-> content, self |-> self]
    ELSE LET written == _write_tool_output(self, content, write_ok)
         IN [out |-> Prefaced(written.path, content), self |-> written.self]

\* the contents of the first call: plain text and text that already starts
\* with a preface, up to, at and above 10000 characters
NormLens == {0, 1000, 9900, 9942, 10000, 10001, 30000}

NormContents == {Content(pre, 1, len) : pre \in {<<>>, <<0>>, <<7>>}, len \in NormLens}

NormInit ==
    /\ nself \in {[dir |-> d, index |-> 0, files |-> {}] : d \in BOOLEAN}
    /\ ncontent \in NormContents
    /\ nouts = <<>>
    /\ nspills = <<>>

\* one call, on the content or on what the last call returned
Normalize ==
    /\ Len(nouts) < MaxNorm
    /\ \E write_ok \in BOOLEAN :
          LET content == IF nouts = <<>> THEN ncontent ELSE nouts[Len(nouts)]
              r == normalize_tool_output(nself, content, write_ok)
          IN /\ nouts' = Append(nouts, r.out)
             /\ nself' = r.self
             /\ nspills' = Append(nspills, Cardinality(r.self.files))
    /\ UNCHANGED ncontent
    /\ NormFrame

NextNormalize == Normalize

\* the first call left the content as it was and wrote nothing
FirstUnchanged == nouts[1] = ncontent /\ nspills[1] = 0

\* the first call returned a preface and the first 1000 characters of the
\* content; the preface names the file that holds the content, or the unknown
\* path when nothing was written
FirstSpilled ==
    /\ \E path \in 0..MaxNorm : nouts[1] = Prefaced(path, ncontent)
    /\ nouts[1].pre[1] # 0 =>
          /\ nspills[1] = 1
          /\ [path |-> nouts[1].pre[1], content |-> ncontent] \in nself.files
    /\ nouts[1].pre[1] = 0 => nspills[1] = 0

\* a call on what the call before returned returns it again and writes nothing
Idempotent ==
    \A k \in 2..Len(nouts) : nouts[k] = nouts[k - 1] /\ nspills[k] = nspills[k - 1]

-----------------------------------------------------------------------------
(* ReActAgent.run (ReAct.py), SpecReact *)

\* the system prompt message the run puts in front of the history
SystemMsg == Msg(0, "system", 1500, {}, 0)

\* Histories a run is started with: user and assistant messages in turn, ending
\* with the user's request; ids 1..n.
HistoryOf(sizes) ==
    [i \in 1..Len(sizes) |->
        Msg(i, IF i % 2 = 1 THEN "user" ELSE "assistant", sizes[i], {}, 0)]

ReactHistories ==
    {HistoryOf(<<a>>) : a \in ContentSizes}
    \cup {HistoryOf(<<a, b, c>>) : a \in ContentSizes, b \in ContentSizes, c \in ContentSizes}

\* a step-limit reply that reports the step count as the number of tool calls
_build_max_steps_reply_counts_steps(step_count, tool_call_count) ==
    [max_steps |-> ReactMaxSteps, steps |-> step_count, tool_calls |-> step_count]

\* ReActAgent._build_max_steps_reply: the numbers the reply text names
_build_max_steps_reply(step_count, tool_call_count) ==
    [max_steps |-> ReactMaxSteps, steps |-> step_count, tool_calls |-> tool_call_count]

\* no step-limit reply was built
NoLimit == [max_steps |-> 0, steps |-> 0, tool_calls |-> 0]

ReactInit ==
    /\ \E h \in ReactHistories :
          /\ rmsgs = <<SystemMsg>> \o h
          /\ rnext = Len(h) + 1
    /\ rnew = <<>>
    /\ rpc = "loop"
    /\ rstep = 0
    /\ rcancel = FALSE
    /\ rpending = <<>>
    /\ rtoolchars = 0
    /\ rtoolcount = 0
    /\ rlimit = NoLimit
    /\ rret = [text |-> "pending", delta |-> <<>>]
    /\ rcalls = 0
    /\ rfired = 0

\* the coordinator sets cancel_requested while the run is going on
ReActCancel ==
    /\ rpc # "done"
    /\ ~rcancel
    /\ rcancel' = TRUE
    /\ UNCHANGED <<rmsgs, rnew, rpc, rstep, rpending, rtoolchars, rtoolcount, rlimit,
                   rret, rcalls, rfired, rnext>>
    /\ ReactFrame

\* one entry of the for loop up to the get_response call: the cancel check,
\* compress_messages, the request
ReActLoopTop ==
    /\ rpc = "loop"
    /\ rstep < ReactMaxSteps
    /\ rstep' = rstep + 1
    /\ IF rcancel
       THEN /\ rret' = [text |-> "empty", delta |-> <<>>]
            /\ rpc' = "done"
            /\ UNCHANGED <<rmsgs, rcalls, rfired, rnext>>
       ELSE /\ \E slen \in SummarySizes :
                 LET trig == rmsgs[Len(rmsgs)].role # "assistant"
                 IN /\ rmsgs' = compress_messages(context_manager, rmsgs, TRUE, trig, rnext, slen)
                    /\ rfired' = IF CompressMessagesFires(context_manager, rmsgs, TRUE, trig)
                                 THEN rfired + 1 ELSE rfired
            /\ rnext' = rnext + 1
            /\ rcalls' = rcalls + 1
            /\ rpc' = "model"
            /\ UNCHANGED rret
    /\ UNCHANGED <<rnew, rcancel, rpending, rtoolchars, rtoolcount, rlimit>>
    /\ ReactFrame

\* get_response returns tool calls: the assistant turn is appended and the
\* calls are handed to _run_tool_calls_parallel
ReActModelToolCalls ==
    /\ rpc = "model"
    /\ \E k \in 1..MaxCalls :
          LET am == Msg(rnext, "assistant", 0, (rnext + 1)..(rnext + k), 0)
          IN /\ rmsgs' = Append(rmsgs, am)
             /\ rnew' = Append(rnew, am)
             /\ rpending' = [j \in 1..k |-> rnext + j]
             /\ rnext' = rnext + k + 1
    /\ rpc' = "tools"
    /\ UNCHANGED <<rstep, rcancel, rtoolchars, rtoolcount, rlimit, rret, rcalls, rfired>>
    /\ ReactFrame

\* get_response returns a final answer
ReActModelFinal ==
    /\ rpc = "model"
    /\ \E chars \in AnswerSizes :
          LET am == Msg(rnext, "assistant", chars, {}, 0)
          IN /\ rmsgs' = Append(rmsgs, am)
             /\ rnew' = Append(rnew, am)
             /\ rret' = [text |-> IF chars = 0 THEN "empty" ELSE "text",
                         delta |-> Append(rnew, am)]
    /\ rnext' = rnext + 1
    /\ rpc' = "done"
    /\ UNCHANGED <<rstep, rcancel, rpending, rtoolchars, rtoolcount, rlimit, rcalls, rfired>>
    /\ ReactFrame

\* get_response raises (network failure, bad status): run has no handler, the
\* exception leaves it
ReActModelRaises ==
    /\ rpc = "model"
    /\ rret' = [text |-> "raised", delta |-> <<>>]
    /\ rpc' = "done"
    /\ UNCHANGED <<rmsgs, rnew, rstep, rcancel, rpending, rtoolchars, rtoolcount, rlimit,
                   rcalls, rfired, rnext>>
    /\ ReactFrame

\* _run_tool_calls_parallel returns the results of the batch
ReActToolsReturn ==
    /\ rpc = "tools"
    /\ \E chars \in ContentSizes : rtoolchars' = chars
    /\ rpc' = "append"
    /\ UNCHANGED <<rmsgs, rnew, rstep, rcancel, rpending, rtoolcount, rlimit, rret, rcalls,
                   rfired, rnext>>
    /\ ReactFrame

\* an iteration that answers a cancel with what it has collected so far
ReActAppendTool_returns_collected ==
    /\ rpc = "append"
    /\ rpending # <<>>
    /\ IF rcancel
       THEN /\ rret' = [text |-> "empty", delta |-> rnew]
            /\ rpc' = "done"
            /\ UNCHANGED <<rmsgs, rnew, rpending, rtoolcount>>
       ELSE LET tm == Msg(Head(rpending), "tool", rtoolchars, {}, Head(rpending))
            IN /\ rmsgs' = Append(rmsgs, tm)
               /\ rnew' = Append(rnew, tm)
               /\ rtoolcount' = rtoolcount + 1
               /\ rpending' = Tail(rpending)
               /\ rpc' = IF Tail(rpending) = <<>> THEN "loop" ELSE "append"
               /\ UNCHANGED rret
    /\ UNCHANGED <<rstep, rcancel, rtoolchars, rlimit, rcalls, rfired, rnext>>
    /\ ReactFrame

\* one iteration of `for call, tool_result in zip(tool_calls, tool_results)`
ReActAppendTool ==
    /\ rpc = "append"
    /\ rpending # <<>>
    /\ IF rcancel
       THEN /\ rret' = [text |-> "empty", delta |-> <<>>]
            /\ rpc' = "done"
            /\ UNCHANGED <<rmsgs, rnew, rpending, rtoolcount>>
       ELSE LET tm == Msg(Head(rpending), "tool", rtoolchars, {}, Head(rpending))
            IN /\ rmsgs' = Append(rmsgs, tm)
               /\ rnew' = Append(rnew, tm)
               /\ rtoolcount' = rtoolcount + 1
               /\ rpending' = Tail(rpending)
               /\ rpc' = IF Tail(rpending) = <<>> THEN "loop" ELSE "append"
               /\ UNCHANGED rret
    /\ UNCHANGED <<rstep, rcancel, rtoolchars, rlimit, rcalls, rfired, rnext>>
    /\ ReactFrame

\* the for loop is exhausted: _build_max_steps_reply
ReActStepLimit ==
    /\ rpc = "loop"
    /\ rstep = ReactMaxSteps
    /\ LET am == Msg(rnext, "assistant", 200, {}, 0)
       IN /\ rnew' = Append(rnew, am)
          /\ rret' = [text |-> "limit", delta |-> Append(rnew, am)]
    /\ rlimit' = _build_max_steps_reply(rstep, rtoolcount)
    /\ rnext' = rnext + 1
    /\ rpc' = "done"
    /\ UNCHANGED <<rmsgs, rstep, rcancel, rpending, rtoolchars, rtoolcount, rcalls, rfired>>
    /\ ReactFrame

NextReact ==
    \/ ReActCancel
    \/ ReActLoopTop
    \/ ReActModelToolCalls
    \/ ReActModelFinal
    \/ ReActModelRaises
    \/ ReActToolsReturn
    \/ ReActAppendTool
    \/ ReActStepLimit

-----------------------------------------------------------------------------
(* Properties of the ReAct loop, checked under SpecReact *)

\* every tool message is preceded by the assistant message that issued its call
ToolsAnchored(msgs) ==
    \A i \in 1..Len(msgs) :
        msgs[i].role = "tool" =>
            \E j \in 1..(i - 1) :
                msgs[j].role = "assistant" /\ msgs[i].call \in msgs[j].calls

\* C4: after any runtime compression every tool-role message of the retained
\* sequence is still preceded, in that sequence, by the assistant message
\* whose tool_calls contains its tool_call_id.
C4_ToolMessagesKeepTheirAssistantTurn == ToolsAnchored(rmsgs)

\* C14: a run that ends while no cancel was requested returns a non-empty
\* reply text, whatever the content of the model's final answer was.
C14_FinishedRunHasAReply ==
    (rpc = "done" /\ ~rcancel) => rret.text # "empty"

\* the assistant turns of msgs that request tool calls
ToolTurns(msgs) ==
    Cardinality({i \in 1..Len(msgs) : msgs[i].role = "assistant" /\ msgs[i].calls # {}})

\* C15: run issues at most max_steps model calls; when every one of them asked
\* for tools (and no cancel was requested) the run ends with the step-limit
\* reply, which is not empty, names max_steps and the number of tool calls
\* made, and is the last assistant message of the returned delta.
C15_StepLimitReply ==
    /\ rcalls <= ReactMaxSteps
    /\ (rpc = "done" /\ ~rcancel /\ ToolTurns(rnew) = ReactMaxSteps) => rret.text = "limit"
    /\ rret.text = "limit" =>
          LET last == rret.delta[Len(rret.delta)]
          IN /\ rcalls = ReactMaxSteps
             /\ last.role = "assistant" /\ last.calls = {} /\ last.chars > 0
             /\ rlimit.max_steps = ReactMaxSteps
             /\ rlimit.tool_calls = CountRole(rret.delta, "tool")

\* a run that reached the step limit after batches of more than one tool call
C15_Witness ==
    /\ rpc = "done" /\ rret.text = "limit"
    /\ rlimit.tool_calls > ReactMaxSteps

\* C18: the cancel flag is read at the top of every step: when it is set there
\* run returns the empty result without a model call in that step (so a flag
\* set before the first step gives no model call at all), and once the flag
\* is set no further model call and no further batch of tool calls is issued.
C18_CancelStopsTheLoop ==
    [][/\ (rpc = "loop" /\ rstep < ReactMaxSteps /\ rcancel) =>
             /\ rpc' = "done"
             /\ rret' = [text |-> "empty", delta |-> <<>>]
             /\ rcalls' = rcalls
       /\ rcancel =>
             /\ rcalls' = rcalls
             /\ ~(rpc = "model" /\ rpc' = "tools")]_vars

\* the part of C18 about the top of a step alone
C18_TopOfStepCheck ==
    [][(rpc = "loop" /\ rstep < ReactMaxSteps /\ rcancel) =>
          /\ rpc' = "done"
          /\ rret' = [text |-> "empty", delta |-> <<>>]
          /\ rcalls' = rcalls]_vars

\* the assistant turn at position i of d asks for tools
IsToolTurn(d, i) == d[i].role = "assistant" /\ d[i].calls # {}

\* d is a sequence of groups and one final answer: every assistant turn with
\* tool_calls is followed by one tool message per call, with the ids of the
\* calls in call order (call number j of the turn with id n has id n + j);
\* every tool message is in the group of its turn; the last message, and no
\* other, is an assistant message without tool_calls
GroupsThenAnswer(d) ==
    /\ d # <<>>
    /\ \A i \in 1..Len(d) :
          /\ d[i].role \in {"assistant", "tool"}
          /\ IsToolTurn(d, i) =>
                \A c \in d[i].calls :
                    LET j == i + (c - d[i].id)
                    IN j <= Len(d) /\ d[j].role = "tool" /\ d[j].call = c
          /\ d[i].role = "tool" =>
                \E j \in 1..(i - 1) :
                    /\ IsToolTurn(d, j)
                    /\ d[i].call \in d[j].calls
                    /\ i = j + (d[i].call - d[j].id)
          /\ (d[i].role = "assistant" /\ d[i].calls = {}) <=> i = Len(d)

\* C35: a non-empty delta returned by run is zero or more groups (an assistant
\* message with tool_calls, then one tool message per call with the matching
\* ids in call order) and then one final assistant message without tool_calls
\* whose content is the returned text; a first step without tool calls gives
\* a delta of that one message; a run that returns because the cancel flag was
\* seen returns the empty delta, never the messages collected so far.
C35_DeltaIsGroupsThenAnswer ==
    /\ rret.delta # <<>> =>
          /\ rret.delta = rnew
          /\ GroupsThenAnswer(rret.delta)
          /\ rret.text = "empty" <=> rret.delta[Len(rret.delta)].chars = 0
          /\ ToolTurns(rret.delta) = 0 => Len(rret.delta) = 1
    /\ (rpc = "done" /\ rret.text # "raised" /\ ~GroupsThenAnswer(rnew)) =>
          (rcancel /\ rret = [text |-> "empty", delta |-> <<>>])

\* a run returned two groups, one of them of several calls, and the answer
C35_Witness ==
    /\ rpc = "done"
    /\ rret.text = "text"
    /\ ToolTurns(rret.delta) = 2
    /\ \E i \in 1..Len(rret.delta) : Cardinality(rret.delta[i].calls) > 1

\* a run was cancelled in the middle of a group
C35_WitnessCancelled ==
    /\ rpc = "done"
    /\ rcancel
    /\ rret.delta = <<>>
    /\ rnew # <<>>
    /\ rnew[Len(rnew)].role = "tool"
    /\ rpending # <<>>

-----------------------------------------------------------------------------
(* One step of the ReAct loop with its batch of tool calls, SpecTools *)

\* how a requested tool call turns out: the tool returns, the tool raises, the
\* name is not in tool_map, or the arguments string is not JSON
ToolKinds == {"ok", "raises", "unknown", "badargs"}

\* the result of no call: a future still running
NoResult == [of |-> 0, text |-> "none", chars |-> 0]

\* Tool.run: _parse_arguments (json.loads raises on an unparseable string),
\* then _execute, which returns chars characters or raises
Tool_run(call, chars) ==
    IF call.kind \in {"badargs", "raises"}
    THEN [raised |-> TRUE, chars |-> 0]
    ELSE [raised |-> FALSE, chars |-> chars]

\* a _run_tool_call without its try/except: what the tool raises leaves it
_run_tool_call_without_except(call, chars) ==
    IF call.kind = "unknown"
    THEN [of |-> call.id, text |-> "Tool not found", chars |-> 8]
    ELSE LET r == Tool_run(call, chars)
         IN IF r.raised
            THEN [of |-> call.id, text |-> "raised", chars |-> 0]
            ELSE [of |-> call.id, text |-> "result", chars |-> r.chars]

\* ReActAgent._run_tool_call: the string the call yields, tagged with the call
\* it was computed for
_run_tool_call(call, chars) ==
    IF call.kind = "unknown"
    THEN [of |-> call.id, text |-> "Tool not found", chars |-> 8]
    ELSE LET r == Tool_run(call, chars)
         IN IF r.raised
            THEN [of |-> call.id, text |-> "Tool error", chars |-> 8]
            ELSE [of |-> call.id, text |-> "result", chars |-> r.chars]

\* results collected as the calls complete instead of as they were submitted
_run_tool_calls_parallel_as_completed(futures, order) ==
    [j \in 1..Len(order) |-> futures[order[j]]]

\* ReActAgent._run_tool_calls_parallel: the futures' results in the order the
\* calls were submitted, whatever the order `order` they completed in
_run_tool_calls_parallel(futures, order) ==
    [j \in 1..Len(order) |-> futures[j]]

\* the step has issued get_response
ToolsInit ==
    /\ tcalls = <<>>
    /\ tfutures = <<>>
    /\ torder = <<>>
    /\ tresults = <<>>
    /\ tlog = <<>>
    /\ tpc = "model"
    /\ tcancel = FALSE
    /\ tend = "running"

\* the coordinator sets cancel_requested while the step is going on
ToolsCancel ==
    /\ tpc # "done"
    /\ ~tcancel
    /\ tcancel' = TRUE
    /\ UNCHANGED <<tcalls, tfutures, torder, tresults, tlog, tpc, tend>>
    /\ ToolsFrame

\* get_response raises: run has no handler, the exception leaves it
StepModelRaises ==
    /\ tpc = "model"
    /\ tpc' = "done"
    /\ tend' = "raised_by_model"
    /\ UNCHANGED <<tcalls, tfutures, torder, tresults, tlog, tcancel>>
    /\ ToolsFrame

\* get_response returns k tool calls; each is submitted to the executor
StepModelToolCalls ==
    /\ tpc = "model"
    /\ \E k \in 1..MaxCalls :
          \E kinds \in [1..k -> ToolKinds] :
             /\ tcalls' = [j \in 1..k |-> [id |-> j, kind |-> kinds[j]]]
             /\ tfutures' = [j \in 1..k |-> NoResult]
    /\ tpc' = "tools"
    /\ UNCHANGED <<torder, tresults, tlog, tcancel, tend>>
    /\ ToolsFrame

\* one worker thread of the executor finishes _run_tool_call for its call
ToolCompletes(j) ==
    /\ tpc = "tools"
    /\ j \in 1..Len(tcalls)
    /\ tfutures[j] = NoResult
    /\ \E chars \in ContentSizes :
          tfutures' = [tfutures EXCEPT ![j] = _run_tool_call(tcalls[j], chars)]
    /\ torder' = Append(torder, j)
    /\ UNCHANGED <<tcalls, tresults, tlog, tpc, tcancel, tend>>
    /\ ToolsFrame

\* _run_tool_calls_parallel returns once every future is done; future.result()
\* re-raises what its call raised
ToolsReturn ==
    /\ tpc = "tools"
    /\ Len(torder) = Len(tcalls)
    /\ IF \E j \in 1..Len(tcalls) : tfutures[j].text = "raised"
       THEN /\ tend' = "raised_by_tool"
            /\ tpc' = "done"
            /\ UNCHANGED tresults
       ELSE /\ tresults' = _run_tool_calls_parallel(tfutures, torder)
            /\ tpc' = "append"
            /\ UNCHANGED tend
    /\ UNCHANGED <<tcalls, tfutures, torder, tlog, tcancel>>
    /\ ToolsFrame

\* one iteration of `for call, tool_result in zip(tool_calls, tool_results)`;
\* after the last one the loop goes on to its next step
AppendTool ==
    /\ tpc = "append"
    /\ IF tcancel
       THEN /\ tend' = "cancelled"
            /\ tpc' = "done"
            /\ UNCHANGED tlog
       ELSE LET i == Len(tlog) + 1
                call == tcalls[i]
                tool_result == tresults[i]
                tool_msg == Msg(call.id, "tool", tool_result.chars, {}, call.id)
            IN /\ tlog' = Append(tlog, [msg |-> tool_msg, result |-> tool_result])
               /\ tpc' = IF i = Len(tcalls) THEN "done" ELSE "append"
               /\ tend' = IF i = Len(tcalls) THEN "continue" ELSE tend
    /\ UNCHANGED <<tcalls, tfutures, torder, tresults, tcancel>>
    /\ ToolsFrame

NextTools ==
    \/ ToolsCancel
    \/ StepModelRaises
    \/ StepModelToolCalls
    \/ \E j \in 1..MaxCalls : ToolCompletes(j)
    \/ ToolsReturn
    \/ AppendTool

\* C16: within one assistant turn exactly one tool message is appended per
\* requested call, in the order the calls were issued, each carrying the id of
\* its own call and the result of that call, whatever order the parallel
\* executions completed in.
C16_ToolMessagesFollowIssueOrder ==
    /\ Len(tlog) <= Len(tcalls)
    /\ \A j \in 1..Len(tlog) :
          /\ tlog[j].msg.role = "tool"
          /\ tlog[j].msg.call = tcalls[j].id
          /\ tlog[j].result.of = tcalls[j].id
          /\ tlog[j].result = tfutures[j]
          /\ tlog[j].msg.chars = tfutures[j].chars
    /\ tend = "continue" => Len(tlog) = Len(tcalls)

\* a batch whose last call completed first, appended in full
C16_Witness ==
    /\ tend = "continue"
    /\ Len(tcalls) = MaxCalls
    /\ torder[1] = MaxCalls
    /\ \E i, j \in 1..Len(tlog) : tlog[i].result.chars # tlog[j].result.chars

\* the string _run_tool_call yields for a call of the given kind
OwnString(kind) ==
    CASE kind = "ok" -> "result"
      [] kind = "unknown" -> "Tool not found"
      [] kind \in {"raises", "badargs"} -> "Tool error"

\* C17: a failing tool call (the tool raises, its name is unknown, its
\* arguments do not parse) never ends the run and never changes the results of
\* the other calls of its batch: every call yields its own string as its tool
\* message and the loop goes on; only a failure of the model call leaves run.
C17_ToolFailureStaysInItsMessage ==
    /\ tend # "raised_by_tool"
    /\ \A j \in 1..Len(tlog) : tlog[j].result.text = OwnString(tcalls[j].kind)
    /\ (tpc = "done" /\ tcalls # <<>> /\ ~tcancel) =>
          /\ tend = "continue"
          /\ Len(tlog) = Len(tcalls)

\* a batch with a raising tool, an unknown tool and a good call, appended in full
C17_Witness ==
    /\ tend = "continue"
    /\ \E i, j, l \in 1..Len(tlog) :
          /\ tcalls[i].kind = "raises"
          /\ tcalls[j].kind \in {"unknown", "badargs"}
          /\ tcalls[l].kind = "ok" /\ tlog[l].result.chars > 8

-----------------------------------------------------------------------------
(* ReCAPAgent (ReCAP.py), SpecRecap *)

\* A subtask as _parse_plan returns it: is_primitive, and whether its text
\* holds a request-for-input keyword ("ask user", "wait for user", ...).
Subtasks == [prim : BOOLEAN, ask : BOOLEAN]

\* the subtask lists a well-formed model response can carry
PlanChoices ==
    {<<>>} \cup {<<a>> : a \in Subtasks}
    \cup (IF MaxPlan >= 2 THEN {<<a, b>> : a \in Subtasks, b \in Subtasks} ELSE {})
    \cup (IF MaxPlan >= 3
          THEN {<<a, b, c>> : a \in Subtasks, b \in Subtasks, c \in Subtasks} ELSE {})

\* ReCAPAgent._needs_user_input; result is "empty", "plain" or "question"
_needs_user_input(subtask, result) ==
    IF result = "empty" THEN FALSE
    ELSE IF subtask.ask THEN TRUE
    ELSE result = "question"

Frame(depth, taskAsk) ==
    [depth |-> depth, taskAsk |-> taskAsk, pc |-> "entry", remaining |-> <<>>,
     cur |-> [prim |-> TRUE, ask |-> FALSE], step_count |-> 0,
     last_result |-> "empty", new |-> <<>>,
     ret |-> [result |-> "empty", delta |-> <<>>]]

RunsViaReAct_primitive_only(is_primitive, depth) == is_primitive

\* _solve, line 99: `if is_primitive or depth >= self.max_depth` hands the
\* subtask to base_agent.run, otherwise _solve is called at depth + 1
RunsViaReAct(is_primitive, depth) == is_primitive \/ depth >= RecapMaxDepth

Top == kstack[Len(kstack)]

SetTop(f) == [kstack EXCEPT ![Len(kstack)] = f]

RecapInit ==
    /\ \E ask \in BOOLEAN : kstack = <<Frame(0, ask)>>
    /\ kmsgs = <<"user">>
    /\ kcancel = FALSE
    /\ kret = [result |-> "pending", delta |-> <<>>]
    /\ kdispatched = 0
    /\ kplancalls = 0
    /\ kobs = [callWithFlag |-> FALSE, dispatchWithFlag |-> FALSE,
               flagAtSubReturn |-> FALSE, limitHit |-> FALSE,
               stopped |-> "no", afterStop |-> FALSE]

\* the coordinator sets cancel_requested; it stays set for the rest of the run
RecapCancel ==
    /\ kstack # <<>>
    /\ ~kcancel
    /\ kcancel' = TRUE
    /\ UNCHANGED <<kstack, kmsgs, kret, kdispatched, kplancalls, kobs>>
    /\ RecapFrame

\* _solve, lines 60-63: the cancel check, then the planning request is issued
SolveEntry ==
    /\ kstack # <<>>
    /\ Top.pc = "entry"
    /\ IF kcancel
       THEN /\ kstack' = SetTop([Top EXCEPT !.pc = "return",
                                    !.ret = [result |-> "empty", delta |-> <<>>]])
            /\ UNCHANGED <<kplancalls, kobs>>
       ELSE /\ kstack' = SetTop([Top EXCEPT !.pc = "plan"])
            /\ kplancalls' = kplancalls + 1
            /\ kobs' = [kobs EXCEPT !.callWithFlag = @ \/ kcancel]
    /\ UNCHANGED <<kmsgs, kcancel, kret, kdispatched>>
    /\ RecapFrame

\* _solve, lines 63-77: _plan returns; an empty plan becomes the single
\* primitive subtask equal to the task
PlanReturns ==
    /\ kstack # <<>>
    /\ Top.pc = "plan"
    /\ \E plan \in PlanChoices :
          LET subtasks == IF plan = <<>>
                          THEN <<[prim |-> TRUE, ask |-> Top.taskAsk]>> ELSE plan
          IN kstack' = SetTop([Top EXCEPT !.pc = "loop", !.remaining = subtasks,
                                  !.new = <<"plan">>, !.last_result = "empty",
                                  !.step_count = 0])
    /\ kmsgs' = Append(kmsgs, "plan")
    /\ UNCHANGED <<kcancel, kret, kdispatched, kplancalls, kobs>>
    /\ RecapFrame

\* _solve, lines 79-104: one entry of `while remaining` up to the dispatch of
\* the subtask, or the return after the loop (line 132).  _parse_plan drops
\* entries with an empty task, so the `continue` of line 91 is never taken.
LoopTop ==
    /\ kstack # <<>>
    /\ Top.pc = "loop"
    /\ IF Top.remaining = <<>>
       THEN /\ kstack' = SetTop([Top EXCEPT !.pc = "return",
                                    !.ret = [result |-> Top.last_result, delta |-> Top.new]])
            /\ UNCHANGED <<kmsgs, kdispatched, kobs>>
       ELSE IF kcancel
       THEN /\ kstack' = SetTop([Top EXCEPT !.pc = "return",
                                    !.ret = [result |-> "empty", delta |-> <<>>]])
            /\ UNCHANGED <<kmsgs, kdispatched, kobs>>
       ELSE IF Top.step_count + 1 > RecapMaxSteps
       THEN /\ kstack' = SetTop([Top EXCEPT
                                    !.pc = "return",
                                    !.step_count = @ + 1,
                                    !.new = Append(@, "limit"),
                                    !.ret = [result |-> IF Top.last_result = "empty"
                                                        THEN "plain" ELSE Top.last_result,
                                             delta |-> Append(Top.new, "limit")]])
            /\ kobs' = [kobs EXCEPT !.limitHit = @ \/ Top.depth = 0]
            /\ UNCHANGED <<kmsgs, kdispatched>>
       ELSE LET current == Head(Top.remaining)
                f == [Top EXCEPT !.step_count = @ + 1, !.remaining = Tail(@),
                                 !.cur = current, !.new = Append(@, "subtask")]
            IN /\ kmsgs' = Append(kmsgs, "subtask")
               /\ kdispatched' = kdispatched + 1
               /\ kobs' = [kobs EXCEPT !.dispatchWithFlag = @ \/ kcancel,
                                       !.afterStop = @ \/ kobs.stopped # "no"]
               /\ IF RunsViaReAct(current.prim, Top.depth)
                  THEN kstack' = SetTop([f EXCEPT !.pc = "react"])
                  ELSE kstack' = Append(SetTop([f EXCEPT !.pc = "child"]),
                                        Frame(Top.depth + 1, current.ask))
    /\ UNCHANGED <<kcancel, kret, kplancalls>>
    /\ RecapFrame

AfterSub_waits_for_input(f, result, sub_new) ==
    LET f1 == [f EXCEPT !.new = @ \o sub_new, !.last_result = result]
    IN IF _needs_user_input(f.cur, result)
       THEN [frame |-> [f1 EXCEPT !.pc = "waiting"],
             msgs |-> sub_new, refine |-> FALSE, stop |-> TRUE]
       ELSE [frame |-> [f1 EXCEPT !.new = Append(@, "reinject"),
                                 !.pc = IF f.remaining # <<>> THEN "refine" ELSE "loop"],
             msgs |-> Append(sub_new, "reinject"),
             refine |-> f.remaining # <<>>, stop |-> FALSE]

\* _solve, lines 105-120, after the subtask returned (result, sub_new): the
\* transcript and the delta are extended, the stop for human input is decided,
\* the re-injection is appended and, if subtasks remain, _refine is called
AfterSub(f, result, sub_new) ==
    LET f1 == [f EXCEPT !.new = @ \o sub_new, !.last_result = result]
    IN IF _needs_user_input(f.cur, result)
       THEN [frame |-> [f1 EXCEPT !.pc = "return",
                                 !.ret = [result |-> result, delta |-> f1.new]],
             msgs |-> sub_new, refine |-> FALSE, stop |-> TRUE]
       ELSE [frame |-> [f1 EXCEPT !.new = Append(@, "reinject"),
                                 !.pc = IF f.remaining # <<>> THEN "refine" ELSE "loop"],
             msgs |-> Append(sub_new, "reinject"),
             refine |-> f.remaining # <<>>, stop |-> FALSE]

\* base_agent.run returns to _solve (line 100).  A run that saw the flag
\* returns ("", []); any other returns its result and a non-empty delta.
ReactReturns ==
    /\ kstack # <<>>
    /\ Top.pc = "react"
    /\ \E out \in {[result |-> r, delta |-> <<"react">>] : r \in {"empty", "plain", "question"}}
                  \cup (IF kcancel THEN {[result |-> "empty", delta |-> <<>>]} ELSE {}) :
          LET a == AfterSub(Top, out.result, out.delta)
          IN /\ kstack' = SetTop(a.frame)
             /\ kmsgs' = kmsgs \o a.msgs
             /\ kplancalls' = IF a.refine THEN kplancalls + 1 ELSE kplancalls
             /\ kobs' = [kobs EXCEPT !.flagAtSubReturn = @ \/ kcancel,
                                     !.callWithFlag = @ \/ (a.refine /\ kcancel),
                                     !.stopped = IF a.stop /\ @ = "no" THEN out.result ELSE @,
                                     !.afterStop = @ \/ (~a.stop /\ kobs.stopped # "no")]
    /\ UNCHANGED <<kcancel, kret, kdispatched>>
    /\ RecapFrame

\* a nested _solve returns to its caller (line 102), or the outermost one
\* returns to run (line 46)
SolveReturns ==
    /\ kstack # <<>>
    /\ Top.pc = "return"
    /\ IF Len(kstack) = 1
       THEN /\ kret' = Top.ret
            /\ kstack' = <<>>
            /\ UNCHANGED <<kmsgs, kplancalls, kobs>>
       ELSE LET parent == kstack[Len(kstack) - 1]
                a == AfterSub(parent, Top.ret.result, Top.ret.delta)
            IN /\ kstack' = [SubSeq(kstack, 1, Len(kstack) - 1)
                                EXCEPT ![Len(kstack) - 1] = a.frame]
               /\ kmsgs' = kmsgs \o a.msgs
               /\ kplancalls' = IF a.refine THEN kplancalls + 1 ELSE kplancalls
               /\ kobs' = [kobs EXCEPT !.callWithFlag = @ \/ (a.refine /\ kcancel),
                                       !.afterStop = @ \/ (~a.stop /\ kobs.stopped # "no")]
               /\ UNCHANGED kret
    /\ UNCHANGED <<kcancel, kdispatched>>
    /\ RecapFrame

\* _solve, lines 121-130: _refine returns.  _parse_plan falls back to the
\* remaining list, so the list it returns is never empty here.
RefineReturns ==
    /\ kstack # <<>>
    /\ Top.pc = "refine"
    /\ \E refined \in (PlanChoices \ {<<>>}) \cup {Top.remaining} :
          kstack' = SetTop([Top EXCEPT !.pc = "loop", !.remaining = refined,
                                  !.new = Append(@, "update")])
    /\ kmsgs' = Append(kmsgs, "update")
    /\ UNCHANGED <<kcancel, kret, kdispatched, kplancalls, kobs>>
    /\ RecapFrame

NextRecap ==
    \/ RecapCancel
    \/ SolveEntry
    \/ PlanReturns
    \/ LoopTop
    \/ ReactReturns
    \/ SolveReturns
    \/ RefineReturns

-----------------------------------------------------------------------------
(* Properties of the planner, checked under SpecRecap *)

\* C6: one global step ceiling: in a single ReCAPAgent.run the subtasks
\* dispatched, summed over all recursion depths, never exceed max_steps, and a
\* run whose outermost invocation hit the ceiling returns the partial result
\* and a delta that ends with the limit message.
C6_GlobalStepCeiling ==
    /\ kdispatched <= RecapMaxSteps
    /\ (kret.result # "pending" /\ kobs.limitHit) =>
           (kret.result # "empty" /\ kret.delta # <<>>
            /\ kret.delta[Len(kret.delta)] = "limit")

\* C7: once the cancel flag is set, no planning or refinement call is issued
\* and no subtask is dispatched, and a run whose flag was set when a subtask
\* returned ends with the empty result and an empty delta.
C7_NothingAfterCancel ==
    /\ ~kobs.callWithFlag
    /\ ~kobs.dispatchWithFlag
    /\ (kret.result # "pending" /\ kobs.flagAtSubReturn) =>
           (kret.result = "empty" /\ kret.delta = <<>>)

C31_DepthBounded ==
    \A i \in 1..Len(kstack) :
        /\ kstack[i].depth = i - 1
        /\ kstack[i].depth <= RecapMaxDepth
        /\ kstack[i].pc = "child" <=> i < Len(kstack)
        /\ kstack[i].pc = "child" =>
              (~kstack[i].cur.prim /\ kstack[i].depth < RecapMaxDepth)
        /\ kstack[i].pc = "react" =>
              (kstack[i].cur.prim \/ kstack[i].depth >= RecapMaxDepth)

\* a non-primitive subtask handed to the ReAct loop at the depth ceiling
C31_Witness ==
    /\ Len(kstack) = RecapMaxDepth + 1
    /\ Top.depth = RecapMaxDepth
    /\ Top.pc = "react"
    /\ ~Top.cur.prim

\* every step of the run but the setting of the cancel flag
RecapStep ==
    \/ SolveEntry
    \/ PlanReturns
    \/ LoopTop
    \/ ReactReturns
    \/ SolveReturns
    \/ RefineReturns

\* C32: ReCAPAgent.run terminates whatever the model answers, refinements
\* that keep returning new non-primitive subtasks included, provided every
\* model call and every ReAct run returns; a run that reached the step
\* ceiling, at the depth ceiling or above it, ends with a final answer.
C32_RunTerminates ==
    /\ <>(kstack = <<>> /\ kret.result # "pending")
    /\ []((kret.result # "pending" /\ kobs.limitHit) => kret.result # "empty")

\* a run that went down to the depth ceiling, hit the step ceiling in its
\* outermost invocation and returned
C32_Witness ==
    /\ kstack = <<>>
    /\ kobs.limitHit
    /\ kret.result # "pending"
    /\ kdispatched > RecapMaxSteps

\* the invocation f is returning through the needs-human-input stop of lines
\* 109-110: the result of its last subtask made _needs_user_input true and is
\* what it returns
StoppedForInput(f) ==
    /\ f.pc = "return"
    /\ _needs_user_input(f.cur, f.last_result)
    /\ f.ret.result = f.last_result

\* C36: when a subtask executed at depth 1 or deeper triggers the
\* needs-human-input stop, by its text or by its result, the whole run stops:
\* the invocation one level up returns as well, with that subtask's result,
\* without a re-injection, a refinement call or a further dispatch (and so on
\* up to run).
C36_NestedStopEndsTheRun ==
    [][(Len(kstack) >= 2 /\ StoppedForInput(Top) /\ kstack' # kstack) =>
          LET caller == kstack'[Len(kstack')]
          IN /\ caller.pc = "return"
             /\ caller.ret.result = Top.ret.result
             /\ kplancalls' = kplancalls]_vars

\* the delta the run has accumulated so far: the new_messages of the
\* invocations in progress, outermost first (a caller's list ends with the
\* subtask message of the nested invocation it is waiting for)
RECURSIVE Accumulated(_)
Accumulated(stack) ==
    IF stack = <<>> THEN <<>> ELSE Head(stack).new \o Accumulated(Tail(stack))

\* C37: at every point of _solve, at every depth, in a run whose cancel flag
\* is not set, the transcript fed to planning, refinement and the ReAct loop
\* is the history the run started with followed by exactly the delta
\* accumulated so far, so that no message is in it twice, also after a
\* recursive subtask has returned and the caller has merged its delta.
C37_TranscriptIsHistoryPlusDelta ==
    (kstack # <<>> /\ ~kcancel /\ Top.pc # "return") =>
        kmsgs = <<"user">> \o Accumulated(kstack)

-----------------------------------------------------------------------------
(* ReCAPAgent._parse_plan and its two callers, SpecPlan *)

\* an item of a `subtasks` list: a dict with non-empty task text (it becomes
\* the subtask sub), a dict without "task", a dict whose task is blank, or a
\* value that is not a dict
Items ==
    {[kind |-> "good", sub |-> st] : st \in Subtasks}
    \cup {[kind |-> k, sub |-> [prim |-> FALSE, ask |-> FALSE]] :
             k \in {"no_task", "blank_task", "not_dict"}}

ItemLists == UNION {[1..n -> Items] : n \in 0..MaxPlan}

\* The responses of the model.  content: None or '' ("none"), white space
\* ("blank"), text without a JSON object ("no_json"), JSON that is not an
\* object ("not_object"), or a JSON object.  The object's `subtasks` field is
\* missing, null, another falsy value (0, false, "", {}), a non-zero number
\* or true, a non-empty string, a non-empty object, or a list.
Responses ==
    {[content |-> c, subtasks |-> "missing", items |-> <<>>] :
        c \in {"none", "blank", "no_json", "not_object"}}
    \cup {[content |-> "object", subtasks |-> f, items |-> <<>>] :
             f \in {"missing", "null", "falsy", "number", "string", "object"}}
    \cup {[content |-> "object", subtasks |-> "list", items |-> l] : l \in ItemLists}

\* _extract_json of the stripped content: the dict, or None
_extract_json(content) == IF content = "object" THEN "dict" ELSE "None"

\* Python's `fallback_remaining or default`
OrDefault(fallback_remaining, default) ==
    IF fallback_remaining.given /\ fallback_remaining.list # <<>>
    THEN fallback_remaining.list ELSE default

IsGood(item) == item.kind = "good"

\* ReCAPAgent._parse_plan.  `for item in data.get("subtasks", []) or []`
\* iterates a list, the characters of a string or the keys of an object, and
\* raises TypeError on a number or true.
_parse_plan(resp, task, fallback_remaining) ==
    IF resp.content = "none"
    THEN [raised |-> FALSE, subtasks |-> OrDefault(fallback_remaining, <<>>)]
    ELSE IF _extract_json(resp.content) # "dict"
    THEN [raised |-> FALSE,
          subtasks |-> OrDefault(fallback_remaining, <<[prim |-> TRUE, ask |-> task]>>)]
    ELSE IF resp.subtasks = "number"
    THEN [raised |-> TRUE, subtasks |-> <<>>]
    ELSE LET good == IF resp.subtasks = "list" THEN SelectSeq(resp.items, IsGood) ELSE <<>>
             subtasks == [j \in 1..Len(good) |-> good[j].sub]
         IN [raised |-> FALSE,
             subtasks |-> IF subtasks = <<>> /\ fallback_remaining.given
                          THEN fallback_remaining.list ELSE subtasks]

\* the remaining lists a refinement request is issued with
RemainingLists == UNION {[1..n -> Subtasks] : n \in 1..MaxPlan}

\* _plan or _refine has issued its request
PlanInit ==
    /\ pmode \in {"plan", "refine"}
    /\ ptask \in BOOLEAN
    /\ pfallback \in IF pmode = "plan"
                     THEN {[given |-> FALSE, list |-> <<>>]}
                     ELSE {[given |-> TRUE, list |-> l] : l \in RemainingLists}
    /\ presp = [content |-> "none", subtasks |-> "missing", items |-> <<>>]
    /\ pplan = [raised |-> FALSE, subtasks |-> <<>>]
    /\ premaining = pfallback.list
    /\ pstage = "call"

\* get_response returns
ModelResponds ==
    /\ pstage = "call"
    /\ presp' \in Responses
    /\ pstage' = "parse"
    /\ UNCHANGED <<pmode, ptask, pfallback, pplan, premaining>>
    /\ PlanFrame

\* _plan / _refine call _parse_plan on the response; what it raises leaves
\* _solve and run
ParsePlan ==
    /\ pstage = "parse"
    /\ pplan' = _parse_plan(presp, ptask, pfallback)
    /\ pstage' = IF pplan'.raised THEN "raised" ELSE "parsed"
    /\ UNCHANGED <<pmode, ptask, pfallback, presp, premaining>>
    /\ PlanFrame

\* _solve takes the plan in: lines 63-77 for the initial plan (an empty list
\* becomes the single primitive subtask equal to the task), lines 121-123 for
\* a refinement (an empty list leaves `remaining` as it is)
SolveTakesPlan ==
    /\ pstage = "parsed"
    /\ premaining' =
          IF pmode = "plan"
          THEN IF pplan.subtasks = <<>> THEN <<[prim |-> TRUE, ask |-> ptask]>>
               ELSE pplan.subtasks
          ELSE IF pplan.subtasks # <<>> THEN pplan.subtasks ELSE premaining
    /\ pstage' = "done"
    /\ UNCHANGED <<pmode, ptask, pfallback, presp, pplan>>
    /\ PlanFrame

NextPlan ==
    \/ ModelResponds
    \/ ParsePlan
    \/ SolveTakesPlan

\* a response is well-formed when it holds a JSON object whose `subtasks` is a
\* list with an item of non-empty task text
WellFormed(resp) ==
    /\ resp.content = "object"
    /\ resp.subtasks = "list"
    /\ \E j \in 1..Len(resp.items) : resp.items[j].kind = "good"

\* C20: parsing a planning or refinement response never raises, and for every
\* response that is not well-formed the initial planning yields the single
\* primitive subtask equal to the task and a refinement leaves the remaining
\* list unchanged.
C20_PlanParsingFallsBack ==
    /\ pstage # "raised"
    /\ (pstage = "done" /\ ~WellFormed(presp)) =>
          premaining = IF pmode = "plan" THEN <<[prim |-> TRUE, ask |-> ptask]>>
                       ELSE pfallback.list

\* the fallback alone, for the responses _parse_plan returns from
C20_FallbackWhenParsed ==
    (pstage = "done" /\ ~WellFormed(presp)) =>
        premaining = IF pmode = "plan" THEN <<[prim |-> TRUE, ask |-> ptask]>>
                     ELSE pfallback.list

-----------------------------------------------------------------------------
(* AskHumanManager (tools/ask_human_tool.py), SpecAsk *)

Asks == 1 .. MaxAsks

Users == 1 .. MaxUsers

\* the texts the entries pass to provide: message contents, already stripped
\* and never empty (entry_qq.py line 321 and the return at line 380)
AnswerInputs == {<<"a">>, <<"a", " ", "a">>}

NoSlot == [owner |-> 0, response |-> <<"None">>]

RECURSIVE LStrip(_)
LStrip(t) == IF t # <<>> /\ Head(t) = " " THEN LStrip(Tail(t)) ELSE t

RECURSIVE RStrip(_)
RStrip(t) ==
    IF t # <<>> /\ t[Len(t)] = " " THEN RStrip(SubSeq(t, 1, Len(t) - 1)) ELSE t

\* str.strip()
Strip(t) == RStrip(LStrip(t))

Blocked(a) == apc[a] \in {"poll", "wait", "pop"}

AskInit ==
    /\ apc = [a \in Asks |-> "idle"]
    /\ auser = [a \in Asks |-> 1]
    /\ aevent = [a \in Asks |-> FALSE]
    /\ apending = [u \in Users |-> NoSlot]
    /\ aflag = [u \in Users |-> FALSE]
    /\ aret = [a \in Asks |-> <<"unset">>]
    /\ aobs = [a \in Asks |-> [answers |-> {}, cancelled |-> FALSE]]
    /\ atask = [u \in Users |-> FALSE]
    /\ astray = FALSE

\* the entry starts a task of the user (entry_qq.py lines 419-435):
\* cancel_requested is cleared and the task is created
AskTaskStarts(u) ==
    /\ ~atask[u]
    /\ atask' = [atask EXCEPT ![u] = TRUE]
    /\ aflag' = [aflag EXCEPT ![u] = FALSE]
    /\ UNCHANGED <<apc, auser, aevent, apending, aret, aobs, astray>>
    /\ AskFrame

\* the task of the user ends (entry_qq.py lines 261-263); it cannot end while
\* one of its ask_human calls has not returned
AskTaskEnds(u) ==
    /\ atask[u]
    /\ \A a \in Asks : auser[a] = u => ~Blocked(a)
    /\ atask' = [atask EXCEPT ![u] = FALSE]
    /\ UNCHANGED <<apc, auser, aevent, apending, aflag, aret, aobs, astray>>
    /\ AskFrame

\* AskHumanManager.cancel applied to _pending and the events
cancel(pend, ev, u) ==
    IF pend[u] = NoSlot
    THEN [pending |-> pend, event |-> ev]
    ELSE [pending |-> [pend EXCEPT ![u].response = <<>>],
          event |-> [ev EXCEPT ![pend[u].owner] = TRUE]]

\* ask, lines 76-84: a fresh event is created and the user's slot is
\* (over)written; the slot records the event of the call that wrote it
AskRegister(a, u) ==
    /\ apc[a] = "idle"
    /\ \A b \in Asks : b < a => apc[b] # "idle"
    /\ atask[u]
    /\ apc' = [apc EXCEPT ![a] = "poll"]
    /\ auser' = [auser EXCEPT ![a] = u]
    /\ apending' = [apending EXCEPT ![u] = [owner |-> a, response |-> <<"None">>]]
    /\ UNCHANGED <<aevent, aflag, aret, aobs, atask, astray>>
    /\ AskFrame

\* ask, lines 87-90: the cancel check at the top of the polling loop
AskPoll(a) ==
    /\ apc[a] = "poll"
    /\ IF aflag[auser[a]]
       THEN LET c == cancel(apending, aevent, auser[a])
            IN /\ apending' = c.pending
               /\ aevent' = c.event
               /\ apc' = [apc EXCEPT ![a] = "done"]
               /\ aret' = [aret EXCEPT ![a] = <<>>]
               /\ aobs' = [aobs EXCEPT ![a].cancelled = TRUE]
       ELSE /\ apc' = [apc EXCEPT ![a] = "wait"]
            /\ UNCHANGED <<apending, aevent, aret, aobs>>
    /\ UNCHANGED <<auser, aflag, atask, astray>>
    /\ AskFrame

\* ask, lines 91-92: event.wait(timeout=0.2) returns
AskWait(a) ==
    /\ apc[a] = "wait"
    /\ apc' = [apc EXCEPT ![a] = IF aevent[a] THEN "pop" ELSE "poll"]
    /\ UNCHANGED <<auser, aevent, apending, aflag, aret, aobs, atask, astray>>
    /\ AskFrame

\* ask, lines 93-97: the slot of the user is popped and its response returned
AskPop(a) ==
    /\ apc[a] = "pop"
    /\ LET data == apending[auser[a]]
       IN aret' = [aret EXCEPT ![a] =
                      IF data = NoSlot THEN <<>>
                      ELSE IF data.response = <<"None">> THEN <<>>
                      ELSE Strip(data.response)]
    /\ apending' = [apending EXCEPT ![auser[a]] = NoSlot]
    /\ apc' = [apc EXCEPT ![a] = "done"]
    /\ UNCHANGED <<auser, aevent, aflag, aobs, atask, astray>>
    /\ AskFrame

\* AskHumanManager.provide, reached from the entries when a task of the user
\* is running, has_pending(user) holds and the text is not the stop keyword
\* (entry_qq.py lines 383-397, entry_cli.py lines 121-129)
ProvideAnswer(u, x) ==
    /\ atask[u]
    /\ apending[u] # NoSlot
    /\ astray' = (astray \/ ~\E a \in Asks : Blocked(a) /\ auser[a] = u)
    /\ apending' = [apending EXCEPT ![u].response = x]
    /\ aevent' = [aevent EXCEPT ![apending[u].owner] = TRUE]
    /\ aobs' = [a \in Asks |->
                   IF Blocked(a) /\ auser[a] = u
                   THEN [aobs[a] EXCEPT !.answers = @ \cup {x}] ELSE aobs[a]]
    /\ UNCHANGED <<apc, auser, aflag, aret, atask>>
    /\ AskFrame

\* the stop keyword while a task is running (entry_qq.py lines 385-387 and
\* 398-400): cancel_requested is set and AskHumanManager.cancel is called
StopKeyword(u) ==
    /\ atask[u]
    /\ ~aflag[u]
    /\ aflag' = [aflag EXCEPT ![u] = TRUE]
    /\ LET c == cancel(apending, aevent, u)
       IN /\ apending' = c.pending
          /\ aevent' = c.event
    /\ aobs' = [a \in Asks |->
                   IF Blocked(a) /\ auser[a] = u
                   THEN [aobs[a] EXCEPT !.cancelled = TRUE] ELSE aobs[a]]
    /\ UNCHANGED <<apc, auser, aret, atask, astray>>
    /\ AskFrame

NextAsk ==
    \/ \E a \in Asks, u \in Users : AskRegister(a, u)
    \/ \E a \in Asks : AskPoll(a)
    \/ \E a \in Asks : AskWait(a)
    \/ \E a \in Asks : AskPop(a)
    \/ \E u \in Users, x \in AnswerInputs : ProvideAnswer(u, x)
    \/ \E u \in Users : StopKeyword(u)
    \/ \E u \in Users : AskTaskStarts(u)
    \/ \E u \in Users : AskTaskEnds(u)

-----------------------------------------------------------------------------
(* Properties of the human-input wait, checked under SpecAsk *)

\* C12: a message of a user with a task in flight is delivered as the answer
\* only when a task of that user is blocked on a pending question: no message
\* is consumed as an answer while no ask of the user is waiting.
C12_AnswerOnlyToAWaitingAsk == ~astray

\* the task of a blocked call was cancelled: cancel() ran while the call was
\* blocked (aobs.cancelled, also set when the polling loop sees the flag), or
\* the cancel flag of the task is set
CancelledFor(a) == aobs[a].cancelled \/ aflag[auser[a]]

\* C10: ask does not return before an answer was provided or the user's task
\* was cancelled; it returns the empty string after a cancellation and a
\* provided answer otherwise; and once an answer was provided or the task was
\* cancelled while it was blocked, it eventually returns.
C10_AskBlocksUntilAnswerOrCancel ==
    /\ [](\A a \in Asks : apc[a] = "done" =>
             /\ aobs[a].answers # {} \/ aobs[a].cancelled
             /\ aobs[a].cancelled => aret[a] = <<>>
             /\ ~aobs[a].cancelled => aret[a] \in aobs[a].answers)
    /\ \A a \in Asks :
          (Blocked(a) /\ (aobs[a].answers # {} \/ CancelledFor(a))) ~> (apc[a] = "done")

\* AskHumanManager.has_pending
has_pending(u) == apending[u] # NoSlot

\* C38: whenever every ask of a user has returned, by an answer, by cancel()
\* or because the polling loop saw the cancel flag, has_pending(user) is
\* false: the pending-question slot does not outlive the blocked ask.
C38_NoSlotWithoutABlockedAsk ==
    \A u \in Users :
        has_pending(u) => \E a \in Asks : Blocked(a) /\ auser[a] = u

\* the question of the blocked call a can be answered: the slot of its user
\* holds the event the call waits on, so provide wakes this call
Answerable(a) == has_pending(auser[a]) /\ apending[auser[a]].owner = a

\* C39: with two ask_human calls of one user in flight at once no ask is
\* orphaned: the question of every blocked ask stays answerable, so that an
\* answer of the user can make it return without a cancellation.
C39_NoAskIsOrphaned ==
    \A a \in Asks : Blocked(a) => Answerable(a)

-----------------------------------------------------------------------------
(* The per-user task coordinator (entry_qq.py, entry_cli.py), SpecCoord *)

MaxTasks == MaxMsgs + MaxAlarms

Tasks == 1 .. MaxTasks

Handlers == 1 .. MaxMsgs

NoTask ==
    [kind |-> "none", pc |-> "none", reply |-> "none",
     stopped |-> FALSE, repliedAfterStop |-> FALSE, committedAfterStop |-> FALSE,
     overlap |-> FALSE]

NewTask(kind, pc) == [NoTask EXCEPT !.kind = kind, !.pc = pc]

\* `state.running_task is not None and not state.running_task.done()`
running ==
    cstate.running_task # 0 /\ ctasks[cstate.running_task].pc # "done"

\* LittleAngelBot.run_task is executing for task t
InRunTask(t) == ctasks[t].pc \in {"run_open", "run_agent", "run_commit"}

CoordInit ==
    /\ cmode \in {"qq", "cli"}
    /\ cstate = [running_task |-> 0, cancel_requested |-> FALSE,
                 pending_input |-> FALSE, api |-> FALSE]
    /\ cqueue = <<>>
    /\ ctasks = [t \in Tasks |-> NoTask]
    /\ chandlers = [h \in Handlers |-> [pc |-> "none", running |-> FALSE, content |-> "text"]]
    /\ censure = 0
    /\ ccount = [tasks |-> 0, msgs |-> 0, alarms |-> 0, popped |-> 0]

\* MyClient._ensure_system_task applied to (state, tasks, count)
_ensure_system_task(st, tk, n, queue) ==
    IF (st.running_task # 0 /\ tk[st.running_task].pc # "done") \/ queue = <<>>
       \/ n >= MaxTasks
    THEN [state |-> st, tasks |-> tk, n |-> n]
    ELSE [state |-> [st EXCEPT !.running_task = n + 1],
          tasks |-> [tk EXCEPT ![n + 1] = NewTask("drain", "pop")],
          n |-> n + 1]

\* on_c2c_message_create, lines 320-340: `running` is computed, then the
\* handler is suspended at `await self._send(...)`
MessageArrives(h, content) ==
    /\ cmode = "qq"
    /\ chandlers[h].pc = "none"
    /\ \A g \in Handlers : g < h => chandlers[g].pc # "none"
    /\ chandlers' = [chandlers EXCEPT ![h] = [pc |-> "await", running |-> running,
                                               content |-> content]]
    /\ cstate' = [cstate EXCEPT !.api = TRUE]
    /\ ccount' = [ccount EXCEPT !.msgs = @ + 1]
    /\ UNCHANGED <<cmode, cqueue, ctasks, censure>>
    /\ CoordFrame

\* the stop keyword is acknowledged: every task in flight is marked
Acknowledge(tk) ==
    [t \in Tasks |-> IF tk[t].kind # "none" /\ tk[t].pc # "done"
                     THEN [tk[t] EXCEPT !.stopped = TRUE] ELSE tk[t]]

\* on_c2c_message_create, lines 383-435, after the await: the busy branch
\* (stop keyword or spoke-while-busy) or the start of a task, decided by the
\* value of `running` computed before the await.  With a question pending
\* (lines 384-397) the stop keyword does the same and any other text goes to
\* provide, which SpecAsk covers.
MessageResumes(h) ==
    /\ chandlers[h].pc = "await"
    /\ chandlers' = [chandlers EXCEPT ![h].pc = "done"]
    /\ IF chandlers[h].running
       THEN IF chandlers[h].content = "stop"
            THEN /\ cstate' = [cstate EXCEPT !.cancel_requested = TRUE]
                 /\ ctasks' = Acknowledge(ctasks)
                 /\ UNCHANGED ccount
            ELSE /\ cstate' = [cstate EXCEPT !.pending_input = TRUE]
                 /\ UNCHANGED <<ctasks, ccount>>
       ELSE /\ ccount.tasks < MaxTasks
            /\ cstate' = [cstate EXCEPT !.cancel_requested = FALSE,
                                        !.pending_input = FALSE,
                                        !.running_task = ccount.tasks + 1]
            /\ ctasks' = [ctasks EXCEPT ![ccount.tasks + 1] = NewTask("user", "created")]
            /\ ccount' = [ccount EXCEPT !.tasks = @ + 1]
    /\ UNCHANGED <<cmode, cqueue, censure>>
    /\ CoordFrame

\* entry_cli.py main_async, lines 121-149: one line of input is handled
\* without an await between the test of running_task and its assignment
CliInput(content) ==
    /\ cmode = "cli"
    /\ ccount.msgs < MaxMsgs
    /\ IF running
       THEN IF content = "stop"
            THEN /\ cstate' = [cstate EXCEPT !.cancel_requested = TRUE]
                 /\ ctasks' = Acknowledge(ctasks)
                 /\ ccount' = [ccount EXCEPT !.msgs = @ + 1]
            ELSE /\ cstate' = [cstate EXCEPT !.pending_input = TRUE]
                 /\ ccount' = [ccount EXCEPT !.msgs = @ + 1]
                 /\ UNCHANGED ctasks
       ELSE /\ ccount.tasks < MaxTasks
            /\ cstate' = [cstate EXCEPT !.cancel_requested = FALSE,
                                        !.pending_input = FALSE,
                                        !.running_task = ccount.tasks + 1]
            /\ ctasks' = [ctasks EXCEPT ![ccount.tasks + 1] = NewTask("cli", "created")]
            /\ ccount' = [ccount EXCEPT !.tasks = @ + 1, !.msgs = @ + 1]
    /\ UNCHANGED <<cmode, cqueue, chandlers, censure>>
    /\ CoordFrame

\* task u is executing a message: a user-initiated task that has not ended, a
\* drain between its pop and the end of _run_system_message, or a run on the
\* timer thread
Executing(tk, u) ==
    \/ tk[u].kind \in {"user", "cli"} /\ tk[u].pc # "done"
    \/ tk[u].kind = "timer" /\ tk[u].pc # "done"
    \/ tk[u].kind = "drain" /\ tk[u].pc \notin {"pop", "done"}

\* AlarmTool._fire on the timer thread, for an alarm that the agent of some
\* task has set.  With the system handler installed
\* (entry_qq.py line 447) the message is enqueued and _ensure_system_task is
\* scheduled on the loop; without one (entry_cli.py) _handle_system_message
\* calls handle_message, hence run_task, on the timer thread itself.
AlarmFires ==
    /\ ccount.alarms < MaxAlarms
    /\ \E t \in Tasks : ctasks[t].kind # "none" /\ ctasks[t].pc \notin {"created", "run_open"}
    /\ IF cmode = "qq"
       THEN /\ cqueue' = Append(cqueue, ccount.alarms + 1)
            /\ censure' = censure + 1
            /\ ccount' = [ccount EXCEPT !.alarms = @ + 1]
            /\ UNCHANGED ctasks
       ELSE /\ ccount.tasks < MaxTasks
            /\ ctasks' = [ctasks EXCEPT ![ccount.tasks + 1] =
                             [NewTask("timer", "run_open") EXCEPT
                                 !.overlap = \E u \in Tasks : Executing(ctasks, u)]]
            /\ ccount' = [ccount EXCEPT !.alarms = @ + 1, !.tasks = @ + 1]
            /\ UNCHANGED <<cqueue, censure>>
    /\ UNCHANGED <<cmode, cstate, chandlers>>
    /\ CoordFrame

\* the scheduled _ensure_system_task callback runs on the loop
EnsureSystemTask ==
    /\ censure > 0
    /\ censure' = censure - 1
    /\ LET e == _ensure_system_task(cstate, ctasks, ccount.tasks, cqueue)
       IN /\ cstate' = e.state
          /\ ctasks' = e.tasks
          /\ ccount' = [ccount EXCEPT !.tasks = e.n]
    /\ UNCHANGED <<cmode, cqueue, chandlers>>
    /\ CoordFrame

\* _run_task (both entries) starts: asyncio.to_thread(run_task, ...)
TaskStarts(t) ==
    /\ ctasks[t].pc = "created"
    /\ ctasks' = [ctasks EXCEPT ![t].pc = "run_open"]
    /\ UNCHANGED <<cmode, cstate, cqueue, chandlers, censure, ccount>>
    /\ CoordFrame

\* _drain_system_queue, lines 306-311 and 312-315: the next message is popped
\* and the cancel flag cleared, or the queue is empty and the task ends
DrainPops(t) ==
    /\ ctasks[t].kind = "drain"
    /\ ctasks[t].pc = "pop"
    /\ IF cqueue = <<>>
       THEN LET st == [cstate EXCEPT !.running_task = 0]
                tk == [ctasks EXCEPT ![t].pc = "done"]
            IN /\ cstate' = st
               /\ ctasks' = tk
               /\ UNCHANGED <<cqueue, ccount>>
       ELSE /\ cqueue' = Tail(cqueue)
            /\ cstate' = [cstate EXCEPT !.cancel_requested = FALSE]
            /\ ctasks' = [ctasks EXCEPT
                             ![t].pc = IF cstate.api THEN "run_open" ELSE "pop",
                             ![t].overlap = @ \/ (cstate.api /\ \E u \in Tasks \ {t} :
                                                                  Executing(ctasks, u))]
            /\ ccount' = [ccount EXCEPT !.popped = Head(cqueue)]
    /\ UNCHANGED <<cmode, chandlers, censure>>
    /\ CoordFrame

\* the cancel_checker run_task was given; the timer thread's call has none
Cancelled(t) == ctasks[t].kind # "timer" /\ cstate.cancel_requested

\* run_task, lines 88-98: the session is opened, the user message appended,
\* and the first cancel check made
RunOpens(t) ==
    /\ ctasks[t].pc = "run_open"
    /\ ctasks' = [ctasks EXCEPT ![t].pc = IF Cancelled(t) THEN "returned" ELSE "run_agent",
                                ![t].reply = "none"]
    /\ UNCHANGED <<cmode, cstate, cqueue, chandlers, censure, ccount>>
    /\ CoordFrame

\* run_task, lines 100-111: the agent returns and the second cancel check is
\* made; a cancelled run rolls back and returns None
RunAgentReturns(t) ==
    /\ ctasks[t].pc = "run_agent"
    /\ \E r \in {"empty", "text", "raise"} :
          ctasks' = [ctasks EXCEPT
                        ![t].pc = IF r = "raise" THEN "raised"
                                  ELSE IF Cancelled(t) THEN "returned" ELSE "run_commit",
                        ![t].reply = IF r = "raise" \/ Cancelled(t) THEN "none" ELSE r]
    /\ UNCHANGED <<cmode, cstate, cqueue, chandlers, censure, ccount>>
    /\ CoordFrame

\* run_task, lines 113-116: append_messages, finalize, return reply_text
RunCommits(t) ==
    /\ ctasks[t].pc = "run_commit"
    /\ ctasks' = [ctasks EXCEPT ![t].pc = IF ctasks[t].kind = "timer" THEN "done" ELSE "returned",
                                ![t].committedAfterStop = @ \/ ctasks[t].stopped]
    /\ UNCHANGED <<cmode, cstate, cqueue, chandlers, censure, ccount>>
    /\ CoordFrame

\* the `finally` of entry_qq.py _run_task (lines 261-263)
Finally(st, tk, n, queue, t) ==
    _ensure_system_task([st EXCEPT !.running_task = 0], [tk EXCEPT ![t].pc = "done"], n, queue)

\* the coroutine resumes after to_thread: with a reply it sends it (qq: an
\* await; cli: a print, after running_task was cleared), without one it ends
\* (user task) or goes back to the queue (drain)
TaskResumes(t) ==
    /\ ctasks[t].pc = "returned"
    /\ IF ctasks[t].kind = "cli"
       THEN /\ cstate' = [cstate EXCEPT !.running_task = 0,
                                        !.pending_input =
                                            IF ctasks[t].reply = "text" THEN FALSE ELSE @]
            /\ ctasks' = [ctasks EXCEPT ![t].pc = "done",
                             ![t].repliedAfterStop =
                                 @ \/ (ctasks[t].reply = "text" /\ ctasks[t].stopped)]
            /\ UNCHANGED ccount
       ELSE IF ctasks[t].reply = "text"
       THEN /\ ctasks' = [ctasks EXCEPT ![t].pc = "sending"]
            /\ UNCHANGED <<cstate, ccount>>
       ELSE IF ctasks[t].kind = "drain"
       THEN /\ ctasks' = [ctasks EXCEPT ![t].pc = "pop"]
            /\ UNCHANGED <<cstate, ccount>>
       ELSE LET e == Finally(cstate, ctasks, ccount.tasks, cqueue, t)
            IN /\ cstate' = e.state
               /\ ctasks' = e.tasks
               /\ ccount' = [ccount EXCEPT !.tasks = e.n]
    /\ UNCHANGED <<cmode, cqueue, chandlers, censure>>
    /\ CoordFrame

\* run_task raised (a model call failed, ReAct.py get_response) and the
\* exception leaves `await asyncio.to_thread(...)`.  entry_qq.py _run_task,
\* lines 249-252: only clear_ask_handler runs, the exception skips the second
\* try/finally (lines 253-263), so running_task keeps the finished task and
\* _ensure_system_task is not called.  entry_cli.py _run_task, lines 82-86:
\* the finally clears running_task.  _drain_system_queue, lines 312-315: the
\* exception of _run_system_message reaches the finally of the drain.  On the
\* timer thread the exception ends the call.
RunTaskRaises(t) ==
    /\ ctasks[t].pc = "raised"
    /\ IF ctasks[t].kind = "drain"
       THEN LET e == Finally(cstate, ctasks, ccount.tasks, cqueue, t)
            IN /\ cstate' = e.state
               /\ ctasks' = e.tasks
               /\ ccount' = [ccount EXCEPT !.tasks = e.n]
       ELSE /\ cstate' = IF ctasks[t].kind = "cli"
                         THEN [cstate EXCEPT !.running_task = 0] ELSE cstate
            /\ ctasks' = [ctasks EXCEPT ![t].pc = "done"]
            /\ UNCHANGED ccount
    /\ UNCHANGED <<cmode, cqueue, chandlers, censure>>
    /\ CoordFrame

\* `await self._send(reply_text)` completes: the reply is delivered; then the
\* spoke-while-busy notice is sent if pending_input is set
ReplySent(t) ==
    /\ ctasks[t].pc = "sending"
    /\ LET tk == [ctasks EXCEPT ![t].repliedAfterStop = @ \/ ctasks[t].stopped]
       IN IF cstate.pending_input
          THEN /\ ctasks' = [tk EXCEPT ![t].pc = "notice"]
               /\ UNCHANGED <<cstate, ccount>>
          ELSE IF ctasks[t].kind = "drain"
          THEN /\ ctasks' = [tk EXCEPT ![t].pc = "pop"]
               /\ UNCHANGED <<cstate, ccount>>
          ELSE LET e == Finally(cstate, tk, ccount.tasks, cqueue, t)
               IN /\ cstate' = e.state
                  /\ ctasks' = e.tasks
                  /\ ccount' = [ccount EXCEPT !.tasks = e.n]
    /\ UNCHANGED <<cmode, cqueue, chandlers, censure>>
    /\ CoordFrame

\* the await of the notice completes and pending_input is cleared
NoticeSent(t) ==
    /\ ctasks[t].pc = "notice"
    /\ LET st == [cstate EXCEPT !.pending_input = FALSE]
       IN IF ctasks[t].kind = "drain"
          THEN /\ ctasks' = [ctasks EXCEPT ![t].pc = "pop"]
               /\ cstate' = st
               /\ UNCHANGED ccount
          ELSE LET e == Finally(st, ctasks, ccount.tasks, cqueue, t)
               IN /\ cstate' = e.state
                  /\ ctasks' = e.tasks
                  /\ ccount' = [ccount EXCEPT !.tasks = e.n]
    /\ UNCHANGED <<cmode, cqueue, chandlers, censure>>
    /\ CoordFrame

NextCoord ==
    \/ \E h \in Handlers, c \in {"text", "stop"} : MessageArrives(h, c)
    \/ \E h \in Handlers : MessageResumes(h)
    \/ \E c \in {"text", "stop"} : CliInput(c)
    \/ AlarmFires
    \/ EnsureSystemTask
    \/ \E t \in Tasks : TaskStarts(t)
    \/ \E t \in Tasks : DrainPops(t)
    \/ \E t \in Tasks : RunOpens(t)
    \/ \E t \in Tasks : RunAgentReturns(t)
    \/ \E t \in Tasks : RunCommits(t)
    \/ \E t \in Tasks : TaskResumes(t)
    \/ \E t \in Tasks : RunTaskRaises(t)
    \/ \E t \in Tasks : ReplySent(t)
    \/ \E t \in Tasks : NoticeSent(t)

-----------------------------------------------------------------------------
(* Properties of the coordinator, checked under SpecCoord *)

\* C1: at most one invocation of run_task is in flight for the user at any
\* time, in every interleaving of messages, alarms and task completions.
C1_OneRunTaskInFlight ==
    Cardinality({t \in Tasks : InRunTask(t)}) <= 1

\* C11: system messages are executed one at a time in the order they were
\* enqueued: the queue holds them in enqueue order behind the last one taken,
\* and none is started while a user-initiated task or another system message
\* is being executed.
C11_SystemMessagesOneAtATimeInOrder ==
    /\ \A i \in 1..Len(cqueue) :
          /\ cqueue[i] > ccount.popped
          /\ \A j \in 1..(i - 1) : cqueue[j] < cqueue[i]
    /\ \A t \in Tasks : ~ctasks[t].overlap

\* C5: a task that was in flight when the stop keyword was acknowledged
\* delivers no reply afterwards and does not append to and finalize its
\* history afterwards.
C5_StoppedTaskStaysSilent ==
    \A t \in Tasks : ~ctasks[t].repliedAfterStop /\ ~ctasks[t].committedAfterStop

\* the steps the event loop and the worker threads take on their own; the
\* arrival of a message, a line of input and the firing of an alarm are events
CoordStep ==
    \/ EnsureSystemTask
    \/ \E h \in Handlers : MessageResumes(h)
    \/ \E t \in Tasks : TaskStarts(t) \/ DrainPops(t) \/ RunOpens(t) \/ RunAgentReturns(t)
                            \/ RunCommits(t) \/ TaskResumes(t) \/ RunTaskRaises(t)
                            \/ ReplySent(t) \/ NoticeSent(t)

\* system message a is waiting in the user's queue
Enqueued(a) == \E i \in 1..Len(cqueue) : cqueue[i] = a

\* system message a has been popped by a drain
Taken(a) == ccount.popped >= a

\* C33: under fairness of the loop's own steps, every system message enqueued
\* for the user is eventually taken from the queue and run, with no further
\* incoming event needed, whichever way the in-flight task ends (reply,
\* cancellation, or an exception from run_task).  (A behaviour that has used
\* up the tasks of the model is not counted against the statement.)
C33_EnqueuedIsEventuallyDrained ==
    \A a \in 1..MaxAlarms :
        Enqueued(a) ~> (Taken(a) \/ ccount.tasks >= MaxTasks)

\* the step delivers the spoke-while-busy notice of task t: the await of the
\* notice completes (entry_qq.py lines 255-260), or the CLI prints it together
\* with the reply (entry_cli.py lines 88-92)
DeliversNotice(t) ==
    \/ ctasks[t].pc = "notice" /\ ctasks'[t].pc # "notice"
    \/ /\ ctasks[t].kind = "cli" /\ ctasks[t].pc = "returned" /\ ctasks[t].reply = "text"
       /\ cstate.pending_input /\ ctasks'[t].pc = "done"

\* the step ends the user-initiated task t after run_task returned (a reply,
\* an empty reply, or None for a cancelled run)
UserTaskEnds(t) ==
    /\ ctasks[t].kind \in {"user", "cli"}
    /\ ctasks[t].pc \notin {"done", "raised"}
    /\ ctasks'[t].pc = "done"

\* C34: once the user spoke while a task was running, the notice is delivered
\* when that task finishes, whichever way it ends: no user-initiated task ends
\* leaving the spoke-while-busy flag set, and the flag is cleared only by the
\* delivery of the notice, never by the start of the next task.
C34_NoticeAfterBusyTask ==
    [][/\ \A t \in Tasks : UserTaskEnds(t) => ~cstate'.pending_input
       /\ (cstate.pending_input /\ ~cstate'.pending_input)
              => \E t \in Tasks : DeliversNotice(t)]_vars

-----------------------------------------------------------------------------
(* The tool instances shared by the tasks of all users                     *)
(* (little_angel_bot.py _bind_tool_user_context, AlarmTool, AskHumanTool), *)
(* SpecBind                                                                *)

\* LittleAngelBot.__init__ builds one AlarmTool and one AskHumanTool; neither
\* is bound to a user yet (user 0)
BindInit ==
    /\ bactive = [alarm |-> 0, ask |-> 0]
    /\ btask = [u \in Users |-> "idle"]
    /\ bcalls = {}

\* the entry starts a task of user u and run_task reaches
\* _bind_tool_user_context on its worker thread
BindTaskStarts(u) ==
    /\ btask[u] = "idle"
    /\ btask' = [btask EXCEPT ![u] = "bind_alarm"]
    /\ UNCHANGED <<bactive, bcalls>>
    /\ BindFrame

\* _bind_tool_user_context, lines 252-253: AlarmTool.set_context(user_id, ...)
BindAlarmTool(u) ==
    /\ btask[u] = "bind_alarm"
    /\ bactive' = [bactive EXCEPT !.alarm = u]
    /\ btask' = [btask EXCEPT ![u] = "bind_ask"]
    /\ UNCHANGED bcalls
    /\ BindFrame

\* _bind_tool_user_context, lines 254-259: AskHumanTool.set_context(user_id,
\* on_ask, cancel_checker); the task then runs its agent
BindAskTool(u) ==
    /\ btask[u] = "bind_ask"
    /\ bactive' = [bactive EXCEPT !.ask = u]
    /\ btask' = [btask EXCEPT ![u] = "agent"]
    /\ UNCHANGED bcalls
    /\ BindFrame

\* the agent of user u's task calls a tool: AlarmTool._execute starts a timer
\* for _active_user_id, AskHumanTool._execute asks for _active_user_id with
\* the _cancel_checker bound together with it
ToolExecutes(u, tool) ==
    /\ btask[u] = "agent"
    /\ bcalls' = bcalls \cup {[tool |-> tool, owner |-> u, user |-> bactive[tool]]}
    /\ UNCHANGED <<bactive, btask>>
    /\ BindFrame

\* run_task of user u returns
BindTaskEnds(u) ==
    /\ btask[u] = "agent"
    /\ btask' = [btask EXCEPT ![u] = "idle"]
    /\ UNCHANGED <<bactive, bcalls>>
    /\ BindFrame

NextBind ==
    \/ \E u \in Users : BindTaskStarts(u)
    \/ \E u \in Users : BindAlarmTool(u)
    \/ \E u \in Users : BindAskTool(u)
    \/ \E u \in Users, tool \in {"alarm", "ask"} : ToolExecutes(u, tool)
    \/ \E u \in Users : BindTaskEnds(u)

\* C13: tasks of different users do not interfere through the shared tool
\* instances: every ask_human call registers its question for, and polls the
\* cancel flag of, the user whose task made the call, and every alarm is set
\* for the user whose task set it.
C13_ToolCallsActForTheirOwnUser ==
    \A c \in bcalls : c.user = c.owner

-----------------------------------------------------------------------------
(* Specifications *)

\* a component that takes no step in a specification rests in these states
ReactAtRest ==
    /\ rmsgs = <<>>
    /\ rnew = <<>>
    /\ rpc = "done"
    /\ rstep = 0
    /\ rcancel = FALSE
    /\ rpending = <<>>
    /\ rtoolchars = 0
    /\ rtoolcount = 0
    /\ rlimit = NoLimit
    /\ rret = [text |-> "pending", delta |-> <<>>]
    /\ rcalls = 0
    /\ rfired = 0
    /\ rnext = 1

RecapAtRest ==
    /\ kstack = <<>>
    /\ kmsgs = <<>>
    /\ kcancel = FALSE
    /\ kret = [result |-> "pending", delta |-> <<>>]
    /\ kdispatched = 0
    /\ kplancalls = 0
    /\ kobs = [callWithFlag |-> FALSE, dispatchWithFlag |-> FALSE,
               flagAtSubReturn |-> FALSE, limitHit |-> FALSE,
               stopped |-> "no", afterStop |-> FALSE]

NormAtRest ==
    /\ nself = [dir |-> TRUE, index |-> 0, files |-> {}]
    /\ ncontent = [pre |-> <<>>, text |-> 0, len |-> 0]
    /\ nouts = <<>>
    /\ nspills = <<>>

StoreAtRest ==
    /\ sstore = NewHistory
    /\ scurrent = "ts"
    /\ spath = "ts"
    /\ sall = <<>>
    /\ slast = [op |-> "open", new |-> <<>>, before |-> NewHistory, path |-> "ts",
                current |-> "ts", fired |-> FALSE]
    /\ srenames = 0
    /\ sops = 0
    /\ snext = 1

WindowAtRest ==
    /\ wself = context_manager
    /\ win = <<>>
    /\ wpreserve = TRUE
    /\ wtrig = FALSE
    /\ wcaller = "direct"
    /\ wop = "none"
    /\ warg = <<>>
    /\ wout = <<>>
    /\ wlog = <<>>
    /\ wcalls = 0

PlanAtRest ==
    /\ pmode = "plan"
    /\ ptask = FALSE
    /\ pfallback = [given |-> FALSE, list |-> <<>>]
    /\ presp = [content |-> "none", subtasks |-> "missing", items |-> <<>>]
    /\ pplan = [raised |-> FALSE, subtasks |-> <<>>]
    /\ premaining = <<>>
    /\ pstage = "done"

CoordAtRest ==
    /\ cmode = "qq"
    /\ cstate = [running_task |-> 0, cancel_requested |-> FALSE,
                 pending_input |-> FALSE, api |-> FALSE]
    /\ cqueue = <<>>
    /\ ctasks = [t \in Tasks |-> NoTask]
    /\ chandlers = [h \in Handlers |-> [pc |-> "done", running |-> FALSE, content |-> "text"]]
    /\ censure = 0
    /\ ccount = [tasks |-> 0, msgs |-> 0, alarms |-> 0, popped |-> 0]

\* the history store driven by run_task
HistStart == HistInit /\ ReactAtRest /\ RecapAtRest /\ AskInit /\ CoordAtRest /\ BindInit /\ ToolsInit /\ PlanAtRest /\ WindowAtRest /\ StoreAtRest /\ NormAtRest

SpecHist ==
    /\ HistStart
    /\ [][NextHist]_vars

\* one ReActAgent.run
ReactStart == ReactInit /\ HistInit /\ RecapAtRest /\ AskInit /\ CoordAtRest /\ BindInit /\ ToolsInit /\ PlanAtRest /\ WindowAtRest /\ StoreAtRest /\ NormAtRest

SpecReact ==
    /\ ReactStart
    /\ [][NextReact]_vars

\* one ReCAPAgent.run
RecapStart == RecapInit /\ HistInit /\ ReactAtRest /\ AskInit /\ CoordAtRest /\ BindInit /\ ToolsInit /\ PlanAtRest /\ WindowAtRest /\ StoreAtRest /\ NormAtRest

SpecRecap ==
    /\ RecapStart
    /\ [][NextRecap]_vars

\* the same run when every model call and every ReAct run returns
SpecRecapLive ==
    /\ RecapStart
    /\ [][NextRecap]_vars
    /\ WF_vars(RecapStep)

\* the ask() calls of AskHumanManager; every call and every entry keeps running
AskStart == AskInit /\ HistInit /\ ReactAtRest /\ RecapAtRest /\ CoordAtRest /\ BindInit /\ ToolsInit /\ PlanAtRest /\ WindowAtRest /\ StoreAtRest /\ NormAtRest

SpecAsk ==
    /\ AskStart
    /\ [][NextAsk]_vars
    /\ \A a \in Asks : WF_vars(AskPoll(a)) /\ WF_vars(AskWait(a)) /\ WF_vars(AskPop(a))

\* the shared tool instances under the tasks of several users
BindStart == BindInit /\ HistInit /\ ReactAtRest /\ RecapAtRest /\ AskInit /\ CoordAtRest /\ ToolsInit /\ PlanAtRest /\ WindowAtRest /\ StoreAtRest /\ NormAtRest

SpecBind ==
    /\ BindStart
    /\ [][NextBind]_vars

\* one step of the ReAct loop that requests a batch of tool calls
ToolsStart ==
    ToolsInit /\ HistInit /\ ReactAtRest /\ RecapAtRest /\ AskInit /\ CoordAtRest /\ BindInit
    /\ PlanAtRest /\ WindowAtRest /\ StoreAtRest /\ NormAtRest

SpecTools ==
    /\ ToolsStart
    /\ [][NextTools]_vars

\* one planning or refinement response of the ReCAP planner
PlanStart ==
    PlanInit /\ HistInit /\ ReactAtRest /\ RecapAtRest /\ AskInit /\ CoordAtRest /\ BindInit
    /\ ToolsInit /\ WindowAtRest /\ StoreAtRest /\ NormAtRest

SpecPlan ==
    /\ PlanStart
    /\ [][NextPlan]_vars

\* one message list under the policies of a ContextWindowManager
WindowStart ==
    WindowInit /\ HistInit /\ ReactAtRest /\ RecapAtRest /\ AskInit /\ CoordAtRest /\ BindInit
    /\ ToolsInit /\ PlanAtRest /\ NormAtRest /\ StoreAtRest

SpecWindow ==
    /\ WindowStart
    /\ [][NextWindow]_vars

\* one content under repeated normalize_tool_output
NormStart ==
    NormInit /\ HistInit /\ ReactAtRest /\ RecapAtRest /\ AskInit /\ CoordAtRest /\ BindInit
    /\ ToolsInit /\ PlanAtRest /\ WindowAtRest /\ StoreAtRest

SpecNormalize ==
    /\ NormStart
    /\ [][NextNormalize]_vars

\* one session under the operations of its ConversationContext
StoreStart ==
    StoreInit /\ HistInit /\ ReactAtRest /\ RecapAtRest /\ AskInit /\ CoordAtRest /\ BindInit
    /\ ToolsInit /\ PlanAtRest /\ WindowAtRest /\ NormAtRest

SpecStore ==
    /\ StoreStart
    /\ [][NextStore]_vars

\* the coordinator of one user
CoordStart == CoordInit /\ HistInit /\ ReactAtRest /\ RecapAtRest /\ AskInit /\ BindInit /\ ToolsInit /\ PlanAtRest /\ WindowAtRest /\ StoreAtRest /\ NormAtRest

SpecCoord ==
    /\ CoordStart
    /\ [][NextCoord]_vars

\* the coordinator with the loop and the worker threads kept running
SpecCoordLive ==
    /\ CoordStart
    /\ [][NextCoord]_vars
    /\ WF_vars(CoordStep)

=============================================================================
